---- MODULE Spec2Model ----
(***************************************************************************)
(* Model of the adaptive statistics core of the GTA horse betting          *)
(* assistant: the race Ledger kept in localStorage, the statistics derived *)
(* from it, the model state, and the storage-change listener registry.     *)
(*                                                                         *)
(* Numbers that the program keeps as JavaScript doubles are modelled as    *)
(* exact rationals <<n, d>> (d > 0, lowest terms); Math.sqrt is modelled   *)
(* to three decimals (SqrtScale).                                          *)
(***************************************************************************)
EXTENDS Integers, Sequences, FiniteSets, TLC

(***************************************************************************)
(* Bounds of the model                                                     *)
(***************************************************************************)
MaxRaces == 2      \* longest Ledger explored
MaxClock == 1      \* largest value of the wall clock
MaxSteps == 3      \* operations that rebuild the statistics, in one behaviour
MaxListeners == 3  \* callbacks that can be subscribed

(***************************************************************************)
(* Exact rational arithmetic                                               *)
(***************************************************************************)
Abs(x) == IF x < 0 THEN -x ELSE x

RECURSIVE GCD(_, _)
GCD(a, b) == IF b = 0 THEN a ELSE GCD(b, a % b)

Norm(n, d) ==
  LET g == GCD(Abs(n), Abs(d))
      s == IF d < 0 THEN -1 ELSE 1
  IN  IF n = 0 THEN <<0, 1>> ELSE <<s * (n \div g), s * (d \div g)>>

R(i) == <<i, 1>>
Frac(n, d) == Norm(n, d)

RAdd(a, b) ==
  LET g == GCD(a[2], b[2])
      l == (a[2] \div g) * b[2]
  IN  Norm(a[1] * (l \div a[2]) + b[1] * (l \div b[2]), l)

RNeg(a) == <<-a[1], a[2]>>
RSub(a, b) == RAdd(a, RNeg(b))

RMul(a, b) ==
  LET g1 == GCD(Abs(a[1]), b[2])
      g2 == GCD(Abs(b[1]), a[2])
  IN  IF a[1] = 0 \/ b[1] = 0 THEN <<0, 1>>
      ELSE <<(a[1] \div g1) * (b[1] \div g2), (a[2] \div g2) * (b[2] \div g1)>>

RInv(a) == IF a[1] < 0 THEN <<-a[2], -a[1]>> ELSE <<a[2], a[1]>>
RDiv(a, b) == RMul(a, RInv(b))

RLt(a, b) == a[1] * b[2] < b[1] * a[2]
RLe(a, b) == a[1] * b[2] <= b[1] * a[2]
RMax(a, b) == IF RLt(a, b) THEN b ELSE a
RMin(a, b) == IF RLt(b, a) THEN b ELSE a

\* the sum of s[lo..hi], by halves
RECURSIVE RSumRange(_, _, _)
RSumRange(s, lo, hi) ==
  IF lo > hi THEN R(0)
  ELSE IF lo = hi THEN s[lo]
  ELSE RAdd(RSumRange(s, lo, (lo + hi) \div 2), RSumRange(s, (lo + hi) \div 2 + 1, hi))

RSum(s) == RSumRange(s, 1, Len(s))

\* Math.sqrt, to 1/SqrtScale (exact on 0, 1/4 and 1)
SqrtScale == 100
ISqrt(x) == CHOOSE r \in 0..(2 * SqrtScale) : r * r <= x /\ x < (r + 1) * (r + 1)
RSqrt(a) == Norm(ISqrt((a[1] * SqrtScale * SqrtScale) \div a[2]), SqrtScale)

(***************************************************************************)
(* statsCalculator: pure functions over race records                       *)
(*                                                                         *)
(* A race record is a record with the fields odds,                         *)
(* impliedProbabilities, adjustedProbabilities, recommendedContender,      *)
(* recommendedBetSize, actualFirst, actualSecond, actualThird, profitLoss. *)
(* Contender indices are 0-based as in the program; sequences are 1-based. *)
(***************************************************************************)
RECURSIVE SumProfit(_)
SumProfit(races) ==
  IF races = <<>> THEN 0 ELSE races[1].profitLoss + SumProfit(Tail(races))

RECURSIVE SumInvested(_)
SumInvested(races) ==
  IF races = <<>> THEN 0 ELSE races[1].recommendedBetSize + SumInvested(Tail(races))

RECURSIVE CountWins(_)
CountWins(races) ==
  IF races = <<>> THEN 0
  ELSE (IF races[1].actualFirst = races[1].recommendedContender THEN 1 ELSE 0)
       + CountWins(Tail(races))

\* calculateBettingHistory(races), with Date.now() = t
calculateBettingHistory(races, t) ==
  IF Len(races) = 0
  THEN [cumulativeROI |-> R(0), totalRaces |-> 0, totalWins |-> 0,
        totalProfit |-> 0, totalInvested |-> 0, winRate |-> R(0),
        lastUpdated |-> t]
  ELSE LET totalProfit == SumProfit(races)
           totalInvested == SumInvested(races)
           totalWins == CountWins(races)
       IN  [cumulativeROI |-> IF totalInvested > 0
                              THEN RMul(Frac(totalProfit, totalInvested), R(100))
                              ELSE R(0),
            totalRaces |-> Len(races),
            totalWins |-> totalWins,
            totalProfit |-> totalProfit,
            totalInvested |-> totalInvested,
            winRate |-> RMul(Frac(totalWins, Len(races)), R(100)),
            lastUpdated |-> t]

BucketKeys == {"1-2", "3-5", "6-10", "11-30"}

\* a classification whose first range ends before 2
classifyOddsBelow(odds) ==
  IF RLe(R(1), odds) /\ RLt(odds, R(2)) THEN "1-2"
  ELSE IF RLe(R(2), odds) /\ RLe(odds, R(5)) THEN "3-5"
  ELSE IF RLt(R(5), odds) /\ RLe(odds, R(10)) THEN "6-10"
  ELSE "11-30"

\* classifyOddsToBucket(odds), odds a rational
classifyOddsToBucket(odds) ==
  IF RLe(R(1), odds) /\ RLe(odds, R(2)) THEN "1-2"
  ELSE IF RLt(R(2), odds) /\ RLe(odds, R(5)) THEN "3-5"
  ELSE IF RLt(R(5), odds) /\ RLe(odds, R(10)) THEN "6-10"
  ELSE "11-30"

createEmptyBucket ==
  [totalRaces |-> 0, wins |-> 0, top3Finishes |-> 0,
   totalImpliedProbability |-> R(0), averageImpliedProbability |-> R(0),
   actualWinRate |-> R(0), roiIfFlatBet |-> R(0), varianceScore |-> R(0),
   recentWindowPerformance |-> R(0)]

RECURSIVE SumIntsRange(_, _, _)
SumIntsRange(s, lo, hi) ==
  IF lo > hi THEN 0
  ELSE IF lo = hi THEN s[lo]
  ELSE SumIntsRange(s, lo, (lo + hi) \div 2) + SumIntsRange(s, (lo + hi) \div 2 + 1, hi)

SumInts(s) == SumIntsRange(s, 1, Len(s))

\* the sum of the squared differences from the mean
SumOfSquaredDiffs(outcomes) ==
  IF Len(outcomes) = 0 THEN R(0)
  ELSE LET mean == Frac(SumInts(outcomes), Len(outcomes))
       IN  RSum([k \in 1..Len(outcomes) |->
                   RMul(RSub(R(outcomes[k]), mean), RSub(R(outcomes[k]), mean))])

\* calculateVariance(outcomes): population standard deviation
calculateVariance(outcomes) ==
  IF Len(outcomes) = 0 THEN R(0)
  ELSE LET mean == Frac(SumInts(outcomes), Len(outcomes))
           squaredDiffs == [k \in 1..Len(outcomes) |->
                              RMul(RSub(R(outcomes[k]), mean), RSub(R(outcomes[k]), mean))]
           variance == RDiv(RSum(squaredDiffs), R(Len(outcomes)))
       IN  RSqrt(variance)

\* calculateRecentPerformance(recentOutcomes)
calculateRecentPerformance(recentOutcomes) ==
  IF Len(recentOutcomes) = 0 THEN R(0)
  ELSE RMul(Frac(Len(SelectSeq(recentOutcomes, LAMBDA o : o = 1)), Len(recentOutcomes)),
            R(100))

RecentWindow == 20   \* recentOutcomes keeps the last 20 samples

EmptyAccumulator ==
  [totalRaces |-> 0, wins |-> 0, top3Finishes |-> 0,
   totalImpliedProbability |-> R(0), totalPayout |-> 0, totalBet |-> 0,
   outcomes |-> <<>>, recentOutcomes |-> <<>>]

\* the inner loop counting the wins only
AccumulateWinsOnly(buckets, race, i) ==
  [buckets EXCEPT ![classifyOddsToBucket(R(race.odds[i + 1]))].wins =
     @ + (IF race.actualFirst = i THEN 1 ELSE 0)]

\* the inner loop keeping the first 20 samples of a bucket
AccumulateContenderKeepingOldest(buckets, race, i) ==
  LET odds == race.odds[i + 1]
      bucketKey == classifyOddsToBucket(R(odds))
      bucket == buckets[bucketKey]
      won == race.actualFirst = i
      inTop3 == race.actualFirst = i \/ race.actualSecond = i \/ race.actualThird = i
      pushed == Append(bucket.recentOutcomes, IF won THEN 1 ELSE 0)
  IN  [buckets EXCEPT ![bucketKey] =
        [totalRaces |-> bucket.totalRaces + 1,
         wins |-> bucket.wins + (IF won THEN 1 ELSE 0),
         top3Finishes |-> bucket.top3Finishes + (IF inTop3 THEN 1 ELSE 0),
         totalImpliedProbability |->
            RAdd(bucket.totalImpliedProbability, race.impliedProbabilities[i + 1]),
         totalPayout |-> bucket.totalPayout + (IF won THEN odds ELSE 0),
         totalBet |-> bucket.totalBet + 1,
         outcomes |-> Append(bucket.outcomes, IF won THEN 1 ELSE 0),
         recentOutcomes |->
            IF Len(pushed) > RecentWindow THEN bucket.recentOutcomes ELSE pushed]]

\* one iteration of the inner loop of calculateOddsBucketStats:
\* contender i (0-based) of race
AccumulateContender(buckets, race, i) ==
  LET odds == race.odds[i + 1]
      bucketKey == classifyOddsToBucket(R(odds))
      bucket == buckets[bucketKey]
      won == race.actualFirst = i
      inTop3 == race.actualFirst = i \/ race.actualSecond = i \/ race.actualThird = i
      pushed == Append(bucket.recentOutcomes, IF won THEN 1 ELSE 0)
  IN  [buckets EXCEPT ![bucketKey] =
        [totalRaces |-> bucket.totalRaces + 1,
         wins |-> bucket.wins + (IF won THEN 1 ELSE 0),
         top3Finishes |-> bucket.top3Finishes + (IF inTop3 THEN 1 ELSE 0),
         totalImpliedProbability |->
            RAdd(bucket.totalImpliedProbability, race.impliedProbabilities[i + 1]),
         totalPayout |-> bucket.totalPayout + (IF won THEN odds ELSE 0),
         totalBet |-> bucket.totalBet + 1,
         outcomes |-> Append(bucket.outcomes, IF won THEN 1 ELSE 0),
         recentOutcomes |-> IF Len(pushed) > RecentWindow THEN Tail(pushed) ELSE pushed]]

RECURSIVE AccumulateRace(_, _, _)
AccumulateRace(buckets, race, i) ==
  IF i >= Len(race.odds) THEN buckets
  ELSE AccumulateRace(AccumulateContender(buckets, race, i), race, i + 1)

RECURSIVE AccumulateRaces(_, _)
AccumulateRaces(buckets, races) ==
  IF races = <<>> THEN buckets
  ELSE AccumulateRaces(AccumulateRace(buckets, races[1], 0), Tail(races))

FinalBucket(b) ==
  [totalRaces |-> b.totalRaces,
   wins |-> b.wins,
   top3Finishes |-> b.top3Finishes,
   totalImpliedProbability |-> b.totalImpliedProbability,
   averageImpliedProbability |->
      IF b.totalRaces > 0 THEN RDiv(b.totalImpliedProbability, R(b.totalRaces)) ELSE R(0),
   actualWinRate |->
      IF b.totalRaces > 0 THEN RMul(Frac(b.wins, b.totalRaces), R(100)) ELSE R(0),
   roiIfFlatBet |->
      IF b.totalBet > 0 THEN RMul(Frac(b.totalPayout - b.totalBet, b.totalBet), R(100))
      ELSE R(0),
   varianceScore |-> calculateVariance(b.outcomes),
   recentWindowPerformance |-> calculateRecentPerformance(b.recentOutcomes)]

\* calculateOddsBucketStats(races)
FinalStats(buckets) == [k \in BucketKeys |-> FinalBucket(buckets[k])]

calculateOddsBucketStats(races) ==
  FinalStats(AccumulateRaces([k \in BucketKeys |-> EmptyAccumulator], races))

(***************************************************************************)
(* State                                                                   *)
(***************************************************************************)
VARIABLES
  localStorage,      \* the five persisted items; <<>> when the key is absent, <<v>> otherwise
  storageListeners,  \* the listener registry (array of callbacks)
  now,               \* Date.now()
  pc,                \* position inside logRaceToStorage: "idle", "appended", "rebuilt"
  steps,             \* number of statistics-rebuilding operations started so far
  lastOp,            \* the operation that ran last, and
  lastResult,        \*   how it ended: "ok", "false" (returned false) or "error" (threw)
  notified,          \* the listeners the last operation invoked, in order
  pureIn,            \* argument of the pure function under study
  pureOut            \* its result

vars == <<localStorage, storageListeners, now, pc, steps, lastOp, lastResult,
          notified, pureIn, pureOut>>

storageVars == <<localStorage, storageListeners, pc, steps, lastOp, lastResult, notified>>
pureVars == <<pureIn, pureOut>>

Listeners == 1..MaxListeners
Nobody == 0

Absent == <<>>
Present(v) == <<v>>
Has(item) == item # <<>>
ValueOf(item) == item[1]

\* a stored string that JSON.parse rejects
Unparseable == <<"not", "JSON">>
Parses(item) == Len(item) = 1

(***************************************************************************)
(* Race inputs, as PredictionAndResults.handleLogResult builds them        *)
(***************************************************************************)
ScenarioOdds == <<2, 3, 4, 5, 8, 15>>
LongShotOdds == <<30, 2, 2, 2, 2, 2>>

\* the prediction stored with a record
FlatPrediction == [i \in 1..6 |-> Frac(1, 6)]
SteepPrediction == <<Frac(1, 2), Frac(1, 10), Frac(1, 10), Frac(1, 10), Frac(1, 10), Frac(1, 10)>>

\* handleLogResult(winnerIndex): the record input for a race
handleLogResult(odds, adjusted, recommendedIndex, effectiveBetSize, winnerIndex) ==
  LET wonBet == winnerIndex = recommendedIndex
  IN  [odds |-> odds,
       impliedProbabilities |-> [i \in 1..Len(odds) |-> Frac(1, odds[i])],
       adjustedProbabilities |-> adjusted,
       recommendedContender |-> recommendedIndex,
       recommendedBetSize |-> effectiveBetSize,
       actualFirst |-> winnerIndex,
       actualSecond |-> -1,
       actualThird |-> -1,
       profitLoss |-> IF wonBet
                      THEN odds[recommendedIndex + 1] * effectiveBetSize - effectiveBetSize
                      ELSE -effectiveBetSize]

\* a caller that also records the second and third places
WithPlaces(raceInput, second, third) ==
  [raceInput EXCEPT !.actualSecond = second, !.actualThird = third]

RaceInputs ==
  { handleLogResult(ScenarioOdds, FlatPrediction, 0, 1000, 0),
    handleLogResult(ScenarioOdds, SteepPrediction, 0, 2000, 5),
    WithPlaces(handleLogResult(LongShotOdds, SteepPrediction, 0, 1000, 0), 2, 1) }

\* one more race, for the functions that only read the Ledger
MoreRaceInputs ==
  RaceInputs \cup { WithPlaces(handleLogResult(LongShotOdds, FlatPrediction, 1, 3000, 1), 0, 3) }

(***************************************************************************)
(* storage: the Ledger                                                     *)
(***************************************************************************)
calculateImpliedProbability(odds) == Frac(1, odds + 1)

ImpliedTolerance == Frac(1, 10000)

NeedsCorrection(race) ==
  \E i \in 1..Len(race.impliedProbabilities) :
     RLt(ImpliedTolerance,
         LET d == RSub(race.impliedProbabilities[i], calculateImpliedProbability(race.odds[i]))
         IN  IF RLt(d, R(0)) THEN RNeg(d) ELSE d)

validateAndFixImpliedProbabilities(race) ==
  IF NeedsCorrection(race)
  THEN [race EXCEPT !.impliedProbabilities =
          [i \in 1..Len(race.odds) |-> calculateImpliedProbability(race.odds[i])]]
  ELSE race

\* getRaces() over a storage ls: no races when the item is absent or
\* JSON.parse throws
getRaces(ls) ==
  IF ~Has(ls.RACES) \/ ~Parses(ls.RACES) THEN <<>>
  ELSE LET races == ValueOf(ls.RACES)
       IN  [i \in 1..Len(races) |-> validateAndFixImpliedProbabilities(races[i])]

\* the record appendRace(raceInput) builds; its raceId, a fresh identifier that
\* nothing reads, is left out
NewRace(raceInput) ==
  [odds |-> raceInput.odds,
   impliedProbabilities |->
      [i \in 1..Len(raceInput.odds) |-> calculateImpliedProbability(raceInput.odds[i])],
   adjustedProbabilities |-> raceInput.adjustedProbabilities,
   recommendedContender |-> raceInput.recommendedContender,
   recommendedBetSize |-> raceInput.recommendedBetSize,
   actualFirst |-> raceInput.actualFirst,
   actualSecond |-> raceInput.actualSecond,
   actualThird |-> raceInput.actualThird,
   profitLoss |-> raceInput.profitLoss]

\* appendRace(raceInput): the storage it leaves
appendRace(ls, raceInput) ==
  [ls EXCEPT !.RACES = Present(Append(getRaces(ls), NewRace(raceInput)))]

(***************************************************************************)
(* storage: the model state                                                *)
(***************************************************************************)
getDefaultModelState(t) ==
  [signalWeights |-> [oddsWeight |-> Frac(4, 10),
                      historicalBucketWeight |-> Frac(3, 10),
                      recentBucketWeight |-> Frac(2, 10),
                      consistencyWeight |-> Frac(1, 10)],
   calibrationScalar |-> R(1),
   driftDetectionState |-> [driftDetected |-> FALSE,
                            lastDriftCheck |-> t,
                            consecutiveDriftCount |-> 0],
   lastUpdated |-> t]

getModelState(ls, t) ==
  IF ~Has(ls.MODEL_STATE) \/ ~Parses(ls.MODEL_STATE) THEN getDefaultModelState(t)
  ELSE ValueOf(ls.MODEL_STATE)

\* updateModelState({calibrationScalar: c})
updateCalibrationScalar(ls, c, t) ==
  [ls EXCEPT !.MODEL_STATE =
     Present([getModelState(ls, t) EXCEPT !.calibrationScalar = c, !.lastUpdated = t])]

\* updateModelState({driftDetectionState: d})
updateDriftDetectionState(ls, d, t) ==
  [ls EXCEPT !.MODEL_STATE =
     Present([getModelState(ls, t) EXCEPT !.driftDetectionState = d, !.lastUpdated = t])]

CalibrationRate == Frac(1, 100)
CalibrationMin == Frac(1, 2)
CalibrationMax == Frac(3, 2)

\* calculateCalibrationUpdate(adjusted, implied, actualFirst, scalar)
calculateCalibrationUpdate(adjusted, implied, actualFirst, scalar) ==
  LET error == RSub(adjusted[actualFirst + 1], implied[actualFirst + 1])
      moved == RSub(scalar, RMul(error, CalibrationRate))
  IN  [newCalibrationScalar |-> RMax(CalibrationMin, RMin(CalibrationMax, moved)),
       adjustmentApplied |-> TRUE]

DriftInterval == 20
DriftThreshold == Frac(15, 100)

SubSeqSafe(s, a, b) == IF a > b THEN <<>> ELSE SubSeq(s, a, b)

RoiOf(races) ==
  IF SumInvested(races) > 0 THEN Frac(SumProfit(races), SumInvested(races)) ELSE R(0)

\* detectDrift(races, windowSize)
detectDrift(races, windowSize) ==
  IF Len(races) < 2 * windowSize THEN [driftDetected |-> FALSE]
  ELSE LET recent == SubSeqSafe(races, Len(races) - windowSize + 1, Len(races))
           prior == SubSeqSafe(races, 1, Len(races) - windowSize)
       IN  [driftDetected |-> RLt(DriftThreshold, RSub(RoiOf(prior), RoiOf(recent)))]

(***************************************************************************)
(* storage: rebuilding the derived statistics                              *)
(*                                                                         *)
(* localStorage.setItem may throw (quota).  failAt numbers the setItem     *)
(* call of the running operation that throws; 0 means that none does.      *)
(* A progress record [ls, n, threw] carries the storage, the number of     *)
(* setItem calls made so far and whether one of them has thrown.           *)
(***************************************************************************)
Write(st, cond, newLs, failAt) ==
  IF st.threw \/ ~cond THEN st
  ELSE IF st.n + 1 = failAt THEN [st EXCEPT !.n = st.n + 1, !.threw = TRUE]
  ELSE [ls |-> newLs, n |-> st.n + 1, threw |-> FALSE]

\* localStorage.setItem(key, JSON.stringify(value)), when cond holds
WriteItem(st, cond, key, value, failAt) ==
  Write(st, cond, [st.ls EXCEPT ![key] = Present(value)], failAt)

\* rebuildDerivedStats(), its end: the drift check, every DriftInterval races
RebuildDrift(d, correctedRaces, t, failAt) ==
  Write(d, Len(correctedRaces) > 0 /\ Len(correctedRaces) % DriftInterval = 0,
        updateDriftDetectionState(d.ls,
           [driftDetected |-> detectDrift(correctedRaces, DriftInterval).driftDetected,
            lastDriftCheck |-> t,
            consecutiveDriftCount |->
               IF detectDrift(correctedRaces, DriftInterval).driftDetected
               THEN getModelState(d.ls, t).driftDetectionState.consecutiveDriftCount + 1
               ELSE 0], t),
        failAt)

\* the calibration update of the last race, from the scalar stored in ls
CalibrationUpdateOf(lastRace, ls, t) ==
  calculateCalibrationUpdate(lastRace.adjustedProbabilities,
                             lastRace.impliedProbabilities,
                             lastRace.actualFirst,
                             getModelState(ls, t).calibrationScalar)

\* rebuildDerivedStats(), after the statistics are stored: the calibration
\* update, when there is a race
RebuildCalibration(c, correctedRaces, t, failAt) ==
  RebuildDrift(
    IF Len(correctedRaces) > 0
    THEN Write(c, CalibrationUpdateOf(correctedRaces[Len(correctedRaces)], c.ls, t).adjustmentApplied,
               updateCalibrationScalar(c.ls,
                  CalibrationUpdateOf(correctedRaces[Len(correctedRaces)], c.ls, t).newCalibrationScalar,
                  t),
               failAt)
    ELSE c,
    correctedRaces, t, failAt)

\* rebuildDerivedStats(), once the races are corrected: the betting history
\* and the bucket statistics are recalculated and stored
RebuildStats(a, correctedRaces, t, failAt) ==
  RebuildCalibration(
    WriteItem(WriteItem(a, TRUE, "BETTING_HISTORY",
                        calculateBettingHistory(correctedRaces, t), failAt),
              TRUE, "ODDS_BUCKET_STATS", calculateOddsBucketStats(correctedRaces), failAt),
    correctedRaces, t, failAt)

\* rebuildDerivedStats() on the races read.  needsSave compares
\* race.impliedProbabilities with correctedRaces[i].impliedProbabilities by
\* reference: the arrays differ exactly when the validation built a new record
RebuildRaces(st0, races, t, failAt) ==
  RebuildStats(
    WriteItem(st0, \E i \in 1..Len(races) : NeedsCorrection(races[i]), "RACES",
              [i \in 1..Len(races) |-> validateAndFixImpliedProbabilities(races[i])], failAt),
    [i \in 1..Len(races) |-> validateAndFixImpliedProbabilities(races[i])], t, failAt)

\* rebuildDerivedStats(), started in progress st0 at time t
rebuildDerivedStats(st0, t, failAt) == RebuildRaces(st0, getRaces(st0.ls), t, failAt)

Started(ls) == [ls |-> ls, n |-> 0, threw |-> FALSE]

\* the setItem calls one operation can make
FailPoints == 0..2

(***************************************************************************)
(* storage: the listener registry                                          *)
(***************************************************************************)
IndexOf(arr, l) ==
  IF \E k \in 1..Len(arr) : arr[k] = l
  THEN CHOOSE k \in 1..Len(arr) : arr[k] = l /\ \A j \in 1..(k - 1) : arr[j] # l
  ELSE 0

\* storageListeners.splice(index, 1)
Splice(arr, index) ==
  [k \in 1..(Len(arr) - 1) |-> IF k < index THEN arr[k] ELSE arr[k + 1]]

\* the closure subscribeToStorageChanges(l) returns
unsubscribe(arr, l) ==
  LET index == IndexOf(arr, l)
  IN  IF index > 0 THEN Splice(arr, index) ELSE arr

\* what each listener does to the registry when it is invoked: it calls the
\* unsubscribe closure of plan[l], or of nobody
Plans == [Listeners -> Listeners \cup {Nobody}]

\* storageListeners.forEach(listener => listener()): visits positions
\* k..len0 of the live array, len0 being its length when forEach began
RECURSIVE ForEach(_, _, _, _, _, _)
ForEach(arr, k, len0, plan, invoked, removed) ==
  IF k > len0 \/ k > Len(arr)
  THEN [listeners |-> arr, invoked |-> invoked, removed |-> removed]
  ELSE LET l == arr[k]
           target == plan[l]
           after == IF target = Nobody THEN arr ELSE unsubscribe(arr, target)
       IN  ForEach(after, k + 1, len0, plan, Append(invoked, l),
                   IF after # arr THEN removed \cup {target} ELSE removed)

notifyStorageChange(arr, plan) == ForEach(arr, 1, Len(arr), plan, <<>>, {})

(***************************************************************************)
(* Initial state: a fresh install with the dashboard components mounted.   *)
(* Mounting subscribes their callbacks and loads the session statistics,   *)
(* which stamps the session start.                                         *)
(***************************************************************************)
EmptyStorage ==
  [RACES |-> Absent, BETTING_HISTORY |-> Absent, ODDS_BUCKET_STATS |-> Absent,
   MODEL_STATE |-> Absent, SESSION_START |-> Absent]

InitStorage ==
  /\ localStorage = [EmptyStorage EXCEPT !.SESSION_START = Present(0)]
  /\ storageListeners = [k \in 1..MaxListeners |-> k]
  /\ now = 0
  /\ pc = "idle"
  /\ steps = 0
  /\ lastOp = "none"
  /\ lastResult = "ok"
  /\ notified = <<>>

Init ==
  /\ InitStorage
  /\ pureIn = <<>>
  /\ pureOut = <<>>

(***************************************************************************)
(* Operations                                                              *)
(***************************************************************************)
\* an operation begins
Begin(op) ==
  /\ pc = "idle"
  /\ lastOp' = op

\* an operation that runs rebuildDerivedStats begins
BeginRebuilding(op) ==
  /\ Begin(op)
  /\ steps < MaxSteps
  /\ steps' = steps + 1

NotNotified ==
  /\ notified' = <<>>
  /\ UNCHANGED storageListeners

Notify(plan) ==
  LET r == notifyStorageChange(storageListeners, plan)
  IN  /\ notified' = r.invoked
      /\ storageListeners' = r.listeners

\* the callbacks of the dashboard components reload what they show and
\* leave the registry alone
IdlePlan == [l \in Listeners |-> Nobody]

\* an operation ends in progress r: the storage it leaves, and either the
\* error it throws or the notification of the listeners
Finish(r, plan) ==
  /\ localStorage' = r.ls
  /\ IF r.threw
     THEN lastResult' = "error" /\ NotNotified
     ELSE lastResult' = "ok" /\ Notify(plan)

\* logRaceToStorage(raceData), first step: appendRace(raceData)
LogAppend(raceData, failAt) ==
  /\ BeginRebuilding("logEvent")
  /\ Len(getRaces(localStorage)) < MaxRaces
  /\ NotNotified
  /\ IF failAt = 1
     THEN /\ lastResult' = "error"
          /\ UNCHANGED <<localStorage, pc>>
     ELSE /\ localStorage' = appendRace(localStorage, raceData)
          /\ pc' = "appended"
          /\ lastResult' = "pending"
  /\ UNCHANGED <<now, pureVars>>

\* logRaceToStorage, second step, ending in progress r
LogRebuilt(r) ==
  /\ localStorage' = r.ls
  /\ pc' = IF r.threw THEN "idle" ELSE "rebuilt"
  /\ lastResult' = IF r.threw THEN "error" ELSE "pending"

\* a second step that leaves the statistics as they are
LogRebuildSkipped(failAt) ==
  /\ pc = "appended"
  /\ pc' = "rebuilt"
  /\ lastResult' = "pending"
  /\ UNCHANGED <<localStorage, storageListeners, now, steps, lastOp, notified, pureVars>>

\* logRaceToStorage, second step: rebuildDerivedStats()
LogRebuild(failAt) ==
  /\ pc = "appended"
  /\ LogRebuilt(rebuildDerivedStats(Started(localStorage), now, failAt))
  /\ UNCHANGED <<storageListeners, now, steps, lastOp, notified, pureVars>>

\* logRaceToStorage, third step: notifyStorageChange()
LogNotify(plan) ==
  /\ pc = "rebuilt"
  /\ Notify(plan)
  /\ pc' = "idle"
  /\ lastResult' = "ok"
  /\ UNCHANGED <<localStorage, now, steps, lastOp, pureVars>>

\* races.slice(1): the oldest record is dropped
SliceOffFirst(races) == SubSeq(races, 2, Len(races))

\* races.slice(0, -1)
SliceOffLast(races) == SubSeq(races, 1, Len(races) - 1)

\* undoLastRace(): localStorage.setItem(RACES, updatedRaces)
WriteUpdatedRaces(ls, races, failAt) ==
  WriteItem(Started(ls), TRUE, "RACES", SliceOffLast(races), failAt)

\* an undo that writes the shortened Ledger and notifies, without a rebuild
UndoRaceWithoutRebuild(failAt, plan) ==
  /\ BeginRebuilding("undoLast")
  /\ IF Len(getRaces(localStorage)) = 0
     THEN /\ lastResult' = "false"
          /\ NotNotified
          /\ UNCHANGED localStorage
     ELSE Finish(WriteUpdatedRaces(localStorage, getRaces(localStorage), failAt), plan)
  /\ UNCHANGED <<now, pc, pureVars>>

\* an undo that does not look whether the Ledger is empty
UndoRaceUnguarded(failAt, plan) ==
  /\ BeginRebuilding("undoLast")
  /\ Finish(rebuildDerivedStats(
              WriteUpdatedRaces(localStorage, getRaces(localStorage), failAt), now, failAt),
            plan)
  /\ UNCHANGED <<now, pc, pureVars>>

\* useUndoRace().undoRace(): undoLastRace(), an exception turned into false
UndoRace(failAt, plan) ==
  /\ BeginRebuilding("undoLast")
  /\ IF Len(getRaces(localStorage)) = 0
     THEN /\ lastResult' = "false"
          /\ NotNotified
          /\ UNCHANGED localStorage
     ELSE Finish(rebuildDerivedStats(
                   WriteUpdatedRaces(localStorage, getRaces(localStorage), failAt),
                   now, failAt),
                 plan)
  /\ UNCHANGED <<now, pc, pureVars>>

\* useStorageRebuild().rebuild(): rebuildDerivedStats(), notifyStorageChange()
RebuildAll(failAt, plan) ==
  /\ BeginRebuilding("rebuildAll")
  /\ Finish(rebuildDerivedStats(Started(localStorage), now, failAt), plan)
  /\ UNCHANGED <<now, pc, pureVars>>

\* a reset of the session that also removes the model state
SoftResetForgetting(failAt, plan) ==
  /\ Begin("softReset")
  /\ Finish(WriteItem(Started([localStorage EXCEPT !.MODEL_STATE = Absent]),
                      TRUE, "SESSION_START", now, failAt), plan)
  /\ UNCHANGED <<now, pc, steps, pureVars>>

\* softReset(): setSessionStart(Date.now()), notifyStorageChange()
SoftReset(failAt, plan) ==
  /\ Begin("softReset")
  /\ Finish(WriteItem(Started(localStorage), TRUE, "SESSION_START", now, failAt), plan)
  /\ UNCHANGED <<now, pc, steps, pureVars>>

\* the four removeItem calls of fullReset()
Cleared(ls) == [EmptyStorage EXCEPT !.SESSION_START = ls.SESSION_START]

\* fullReset(): four removeItem, setSessionStart(Date.now()), notifyStorageChange()
FullReset(failAt, plan) ==
  /\ Begin("fullReset")
  /\ Finish(WriteItem(Started(Cleared(localStorage)), TRUE, "SESSION_START", now, failAt),
            plan)
  /\ UNCHANGED <<now, pc, steps, pureVars>>

\* subscribeToStorageChanges(l): a component mounts
Subscribe(l) ==
  /\ pc = "idle"
  /\ IndexOf(storageListeners, l) = 0
  /\ storageListeners' = Append(storageListeners, l)
  /\ UNCHANGED <<localStorage, now, pc, steps, lastOp, lastResult, notified, pureVars>>

\* the closure returned by subscribeToStorageChanges(l), called outside a
\* notification: a component unmounts
Unsubscribe(l) ==
  /\ pc = "idle"
  /\ IndexOf(storageListeners, l) > 0
  /\ storageListeners' = unsubscribe(storageListeners, l)
  /\ UNCHANGED <<localStorage, now, pc, steps, lastOp, lastResult, notified, pureVars>>

\* time passes
Tick ==
  /\ now < MaxClock
  /\ now' = now + 1
  /\ UNCHANGED <<storageVars, pureVars>>

\* The Ledger and what is derived from it: the operations that write them,
\* with the dashboard components mounted
Next ==
  \/ \E raceData \in RaceInputs, failAt \in 0..1 : LogAppend(raceData, failAt)
  \/ \E failAt \in FailPoints : LogRebuild(failAt)
  \/ LogNotify(IdlePlan)
  \/ \E failAt \in FailPoints : UndoRace(failAt, IdlePlan)
  \/ \E failAt \in FailPoints : RebuildAll(failAt, IdlePlan)
  \/ \E failAt \in 0..1 : FullReset(failAt, IdlePlan)
  \/ Tick

Spec == Init /\ [][Next]_vars

\* a stored item is damaged: its string no longer parses
CorruptItem(key) ==
  /\ pc = "idle"
  /\ Has(localStorage[key])
  /\ Parses(localStorage[key])
  /\ localStorage' = [localStorage EXCEPT ![key] = Unparseable]
  /\ UNCHANGED <<storageListeners, now, pc, steps, lastOp, lastResult, notified, pureVars>>

CorruptibleKeys == {"RACES", "BETTING_HISTORY", "ODDS_BUCKET_STATS", "MODEL_STATE"}

\* The operations on a storage whose items can be damaged
NextCorruption ==
  \/ \E raceData \in RaceInputs : LogAppend(raceData, 0)
  \/ LogRebuild(0)
  \/ LogNotify(IdlePlan)
  \/ UndoRace(0, IdlePlan)
  \/ RebuildAll(0, IdlePlan)
  \/ \E key \in CorruptibleKeys : CorruptItem(key)

SpecCorruption == Init /\ [][NextCorruption]_vars

\* The listener registry under arbitrary callbacks: components mount and
\* unmount, the session is reset, and a callback may unsubscribe a callback
\* while it is notified
NextRegistry ==
  \/ \E l \in Listeners : Subscribe(l)
  \/ \E l \in Listeners : Unsubscribe(l)
  \/ \E failAt \in 0..1, plan \in Plans : SoftReset(failAt, plan)
  \/ Tick

SpecRegistry == Init /\ [][NextRegistry]_vars

(***************************************************************************)
(* statsCalculator: the prediction engine                                  *)
(***************************************************************************)
\* calculateBucketWinDelta(bucket)
calculateBucketWinDelta(bucket) ==
  RSub(RDiv(bucket.actualWinRate, R(100)), bucket.averageImpliedProbability)

\* extractRecentSessionDelta(bucket): recentWindowPerformance is a number
extractRecentSessionDelta(bucket) == RDiv(bucket.recentWindowPerformance, R(100))

\* deriveConsistencyModifier(bucket)
deriveConsistencyModifier(bucket) ==
  LET variance == bucket.varianceScore
  IN  IF RLt(variance, Frac(1, 2))
      THEN RMul(Frac(1, 10), RSub(R(1), RDiv(variance, Frac(1, 2))))
      ELSE RMul(Frac(-1, 10), RMin(R(1), RDiv(RSub(variance, Frac(1, 2)), Frac(1, 2))))

\* steps 2 to 4 of the engine with the implied probability 1/(odds + 1)
AdjustedProbabilityPlusOne(oddsValue, bucketStats, signalWeights) ==
  LET impliedProb == Frac(1, oddsValue + 1)
      bucket == bucketStats[classifyOddsToBucket(R(oddsValue))]
      adjustment ==
        RAdd(RAdd(RAdd(R(1),
             RMul(signalWeights.historicalBucketWeight, calculateBucketWinDelta(bucket))),
             RMul(signalWeights.recentBucketWeight, extractRecentSessionDelta(bucket))),
             RMul(signalWeights.consistencyWeight, deriveConsistencyModifier(bucket)))
      safeAdjustment == RMax(Frac(1, 10), adjustment)
  IN  RMul(impliedProb, safeAdjustment)

\* steps 2 to 4 of the engine for one contender
AdjustedProbability(oddsValue, bucketStats, signalWeights) ==
  LET impliedProb == Frac(1, oddsValue)
      bucket == bucketStats[classifyOddsToBucket(R(oddsValue))]
      adjustment ==
        RAdd(RAdd(RAdd(R(1),
             RMul(signalWeights.historicalBucketWeight, calculateBucketWinDelta(bucket))),
             RMul(signalWeights.recentBucketWeight, extractRecentSessionDelta(bucket))),
             RMul(signalWeights.consistencyWeight, deriveConsistencyModifier(bucket)))
      safeAdjustment == RMax(Frac(1, 10), adjustment)
  IN  RMul(impliedProb, safeAdjustment)

\* step 5 of the engine left out
Unnormalized(adjustedProbabilities) == adjustedProbabilities

\* step 5 of the engine: divide by the total
Normalize(adjustedProbabilities) ==
  LET total == RSum(adjustedProbabilities)
  IN  [i \in 1..Len(adjustedProbabilities) |-> RDiv(adjustedProbabilities[i], total)]

\* calculateBucketAdjustedProbabilities(odds, bucketStats, signalWeights)
calculateBucketAdjustedProbabilities(odds, bucketStats, signalWeights) ==
  Normalize([i \in 1..Len(odds) |-> AdjustedProbability(odds[i], bucketStats, signalWeights)])

(***************************************************************************)
(* statsCalculator: the signal weights and the calibration of the model    *)
(***************************************************************************)
\* readModelState(): the state a fresh installation starts from
readModelState(t) ==
  [lastUpdated |-> t,
   totalRacesProcessed |-> 0,
   signalWeights |-> [oddsWeight |-> Frac(35, 100),
                      historicalBucketWeight |-> Frac(25, 100),
                      recentBucketWeight |-> Frac(25, 100),
                      consistencyWeight |-> Frac(15, 100)],
   calibrationScalar |-> R(1),
   confidenceScalingFactor |-> R(1),
   recentAccuracyWindow |-> 20,
   driftDetectionState |-> [baselineAccuracy |-> R(0),
                            currentAccuracy |-> R(0),
                            driftScore |-> R(0),
                            lastDriftCheck |-> t],
   raceCount |-> 0]

\* races.slice(-windowSize)
LastRaces(races, windowSize) ==
  SubSeqSafe(races, IF Len(races) > windowSize THEN Len(races) - windowSize + 1 ELSE 1,
             Len(races))

\* calculateAccuracy(races, windowSize)
calculateAccuracy(races, windowSize) ==
  IF Len(races) = 0 THEN R(0)
  ELSE LET recentRaces == LastRaces(races, windowSize)
           correctPredictions ==
             Len(SelectSeq(recentRaces, LAMBDA race : race.actualFirst = race.recommendedContender))
       IN  RMul(Frac(correctPredictions, Len(recentRaces)), R(100))

\* calculateDriftScore(baselineAccuracy, currentAccuracy)
calculateDriftScore(baselineAccuracy, currentAccuracy) ==
  IF baselineAccuracy = R(0) THEN R(0)
  ELSE LET d == RSub(baselineAccuracy, currentAccuracy)
       IN  RDiv(IF RLt(d, R(0)) THEN RNeg(d) ELSE d, baselineAccuracy)

\* a calibration scalar twice as steep
SteepCalibrationScalar(currentAccuracy) ==
  IF RLt(R(0), currentAccuracy)
  THEN RAdd(R(1), RDiv(RSub(currentAccuracy, R(50)), R(50)))
  ELSE R(1)

\* the calibration scalar computeUpdatedSignalWeights derives from the accuracy
CalibrationScalar(currentAccuracy) ==
  IF RLt(R(0), currentAccuracy)
  THEN RAdd(R(1), RDiv(RSub(currentAccuracy, R(50)), R(100)))
  ELSE R(1)

\* computeUpdatedSignalWeights(races, currentState), at time t
computeUpdatedSignalWeights(races, currentState, t) ==
  IF Len(races) = 0 THEN currentState
  ELSE
    LET bucketStats == calculateOddsBucketStats(races)
        recentWindow == currentState.recentAccuracyWindow
        currentAccuracy == calculateAccuracy(races, recentWindow)
        baselineAccuracy ==
          IF currentState.driftDetectionState.baselineAccuracy = R(0)
               /\ Len(races) >= recentWindow
          THEN currentAccuracy
          ELSE currentState.driftDetectionState.baselineAccuracy
        driftScore == calculateDriftScore(baselineAccuracy, currentAccuracy)
        keys == <<"1-2", "3-5", "6-10", "11-30">>
        totalPositiveROI ==
          RSum([k \in 1..4 |-> RMax(R(0), bucketStats[keys[k]].roiIfFlatBet)])
        historicalBucketWeight ==
          IF RLt(R(0), totalPositiveROI)
          THEN RAdd(Frac(25, 100), RMul(Frac(1, 10), RDiv(totalPositiveROI, R(100))))
          ELSE Frac(25, 100)
        avgRecentPerformance ==
          RDiv(RSum([k \in 1..4 |-> bucketStats[keys[k]].recentWindowPerformance]), R(4))
        recentBucketWeight ==
          IF RLt(R(0), avgRecentPerformance)
          THEN RAdd(Frac(25, 100), RMul(Frac(1, 10), RDiv(avgRecentPerformance, R(100))))
          ELSE Frac(25, 100)
        avgVariance ==
          RDiv(RSum([k \in 1..4 |-> bucketStats[keys[k]].varianceScore]), R(4))
        consistencyWeight == IF RLt(avgVariance, Frac(1, 2)) THEN Frac(2, 10) ELSE Frac(15, 100)
        totalWeight ==
          RAdd(RAdd(RAdd(Frac(35, 100), historicalBucketWeight), recentBucketWeight),
               consistencyWeight)
    IN  [lastUpdated |-> t,
         totalRacesProcessed |-> Len(races),
         signalWeights |->
           [oddsWeight |-> RDiv(Frac(35, 100), totalWeight),
            historicalBucketWeight |-> RDiv(historicalBucketWeight, totalWeight),
            recentBucketWeight |-> RDiv(recentBucketWeight, totalWeight),
            consistencyWeight |-> RDiv(consistencyWeight, totalWeight)],
         calibrationScalar |-> CalibrationScalar(currentAccuracy),
         confidenceScalingFactor |-> RMin(R(1), Frac(Len(races), 100)),
         recentAccuracyWindow |-> currentState.recentAccuracyWindow,
         driftDetectionState |-> [baselineAccuracy |-> baselineAccuracy,
                                  currentAccuracy |-> currentAccuracy,
                                  driftScore |-> driftScore,
                                  lastDriftCheck |-> t],
         raceCount |-> Len(races)]

\* The model state recomputed from a growing Ledger: pureIn is the Ledger,
\* pureOut the model state
InitWeights ==
  /\ InitStorage
  /\ pureIn = <<>>
  /\ pureOut = readModelState(0)

\* appendRace(raceInput)
WeightsAppend(raceInput) ==
  /\ Len(pureIn) < MaxRaces
  /\ pureIn' = Append(pureIn, NewRace(raceInput))
  /\ UNCHANGED <<storageVars, now, pureOut>>

\* the model state is recomputed from the Ledger
WeightsUpdate ==
  /\ pureOut' = computeUpdatedSignalWeights(pureIn, pureOut, now)
  /\ UNCHANGED <<storageVars, now, pureIn>>

NextWeights ==
  \/ \E raceInput \in MoreRaceInputs : WeightsAppend(raceInput)
  \/ WeightsUpdate
  \/ Tick

SpecWeights == InitWeights /\ [][NextWeights]_vars

(***************************************************************************)
(* lib/storage.ts: the typed storage.  readFromStorage throws a            *)
(* StorageCorruptionError when the stored string does not parse, and       *)
(* writeToStorage a StorageError when setItem throws.                      *)
(***************************************************************************)
\* readFromStorage(key) throws
ReadThrows(ls, key) == Has(ls[key]) /\ ~Parses(ls[key])

\* readFromStorage(key) || [], when it does not throw
getRacesTyped(ls) == IF Has(ls.RACES) THEN ValueOf(ls.RACES) ELSE <<>>

\* the RaceRecordInput a result form submits: it carries the implied
\* probabilities of its odds
RaceRecordInputOf(raceInput) ==
  [odds |-> raceInput.odds,
   impliedProbabilities |-> [i \in 1..Len(raceInput.odds) |-> Frac(1, raceInput.odds[i])],
   predictedProbabilities |-> raceInput.adjustedProbabilities,
   recommendedContender |-> raceInput.recommendedContender,
   recommendedBetSize |-> raceInput.recommendedBetSize,
   actualFirst |-> raceInput.actualFirst,
   actualSecond |-> raceInput.actualSecond,
   actualThird |-> raceInput.actualThird,
   profitLoss |-> raceInput.profitLoss]

RaceRecordInputs == { RaceRecordInputOf(raceInput) : raceInput \in RaceInputs }

\* createRaceRecord(input) at Date.now() = t; the fields that no statistic
\* reads (strategyMode, valueEdge, confidenceLevel, signalBreakdown,
\* modelWeightsSnapshot) are left out
createRaceRecord(input, t) ==
  [timestamp |-> t,
   odds |-> input.odds,
   impliedProbabilities |-> input.impliedProbabilities,
   predictedProbabilities |-> input.predictedProbabilities,
   recommendedContender |-> input.recommendedContender,
   recommendedBetSize |-> input.recommendedBetSize,
   actualFirst |-> input.actualFirst,
   actualSecond |-> input.actualSecond,
   actualThird |-> input.actualThird,
   profitLoss |-> input.profitLoss]

\* appendRace(raceInput) in progress st, once getRaces() has returned
appendRaceTyped(st, raceInput, t, failAt) ==
  WriteItem(st, TRUE, "RACES",
            Append(getRacesTyped(st.ls), createRaceRecord(raceInput, t)), failAt)

\* a rebuild that stores the betting history only
rebuildHistoryOnly(st, t, failAt) ==
  WriteItem(st, TRUE, "BETTING_HISTORY",
            calculateBettingHistory(getRacesTyped(st.ls), t), failAt)

\* rebuildDerivedStats() in progress st, once getRaces() has returned: the
\* betting history and the bucket statistics are recalculated and stored
rebuildDerivedStatsTyped(st, t, failAt) ==
  WriteItem(WriteItem(st, TRUE, "BETTING_HISTORY",
                      calculateBettingHistory(getRacesTyped(st.ls), t), failAt),
            TRUE, "ODDS_BUCKET_STATS", calculateOddsBucketStats(getRacesTyped(st.ls)), failAt)

\* readModelState(): the stored model state, or the defaults, which are
\* returned and not stored
readModelStateTyped(ls, t) ==
  IF Has(ls.MODEL_STATE) THEN ValueOf(ls.MODEL_STATE) ELSE readModelState(t)

\* the setItem calls of logRaceToStorage
TypedFailPoints == 0..3

\* an operation of the typed storage ends in progress r, or with the
\* StorageCorruptionError of its first read; listeners.forEach calls every
\* listener
FinishTyped(corrupted, r) ==
  /\ localStorage' = IF corrupted THEN localStorage ELSE r.ls
  /\ lastResult' = IF corrupted THEN "StorageCorruptionError"
                   ELSE IF r.threw THEN "StorageError" ELSE "ok"
  /\ notified' = IF corrupted \/ r.threw THEN <<>> ELSE storageListeners
  /\ UNCHANGED storageListeners

\* the items that do not parse
Damaged(ls) == {key \in DOMAIN ls : ReadThrows(ls, key)}

\* logRaceToStorage(raceData): appendRace, rebuildDerivedStats,
\* notifyStorageChange; what is thrown is thrown again.  pureIn keeps the
\* items that did not parse when the operation began
LogRaceToStorage(raceData, failAt) ==
  /\ BeginRebuilding("logEvent")
  /\ ReadThrows(localStorage, "RACES") \/ Len(getRacesTyped(localStorage)) < MaxRaces
  /\ FinishTyped(ReadThrows(localStorage, "RACES"),
                 rebuildDerivedStatsTyped(
                   appendRaceTyped(Started(localStorage), raceData, now, failAt),
                   now, failAt))
  /\ pureIn' = <<Damaged(localStorage)>>
  /\ UNCHANGED <<now, pc, pureOut>>

\* useStorageRebuild().rebuild(): rebuildDerivedStats(), notifyStorageChange()
RebuildTyped(failAt) ==
  /\ BeginRebuilding("rebuildAll")
  /\ FinishTyped(ReadThrows(localStorage, "RACES"),
                 rebuildDerivedStatsTyped(Started(localStorage), now, failAt))
  /\ pureIn' = <<Damaged(localStorage)>>
  /\ UNCHANGED <<now, pc, pureOut>>

NextTyped ==
  \/ \E raceData \in RaceRecordInputs, failAt \in TypedFailPoints :
       LogRaceToStorage(raceData, failAt)
  \/ \E failAt \in FailPoints : RebuildTyped(failAt)
  \/ \E key \in CorruptibleKeys : CorruptItem(key)
  \/ Tick

SpecTyped == Init /\ [][NextTyped]_vars

\* The prediction engine on the odds a form can submit, the bucket
\* statistics of a Ledger and the signal weights of a model state: pureIn is
\* the input, pureOut the result
PredictOdds ==
  { ScenarioOdds, LongShotOdds,
    <<1, 1, 1, 1, 1, 1>>, <<30, 30, 30, 30, 30, 30>>,
    <<1, 2, 5, 6, 10, 11>>, <<30, 1, 30, 1, 30, 1>> }

\* the Ledgers of at most n races
RECURSIVE LedgersOf(_)
LedgersOf(n) ==
  IF n = 0 THEN {<<>>}
  ELSE LET shorter == LedgersOf(n - 1)
       IN  shorter \cup {Append(l, NewRace(raceInput)) :
                           l \in {x \in shorter : Len(x) = n - 1}, raceInput \in MoreRaceInputs}

\* weights that weigh the history of a bucket far beyond the range of a model state
HistoryOnlyWeights ==
  [oddsWeight |-> R(0), historicalBucketWeight |-> R(4),
   recentBucketWeight |-> R(0), consistencyWeight |-> R(0)]

PredictWeights ==
  { getDefaultModelState(0).signalWeights, readModelState(0).signalWeights,
    HistoryOnlyWeights }
    \cup {computeUpdatedSignalWeights(l, readModelState(0), 0).signalWeights :
            l \in LedgersOf(1)}

InitPredict ==
  /\ InitStorage
  /\ pureIn \in [odds : PredictOdds,
                 bucketStats : {calculateOddsBucketStats(l) : l \in LedgersOf(2)},
                 signalWeights : PredictWeights]
  /\ pureOut = <<>>

\* PredictionAndResults: the prediction shown for the odds entered
Predict ==
  /\ pureOut = <<>>
  /\ pureOut' = <<calculateBucketAdjustedProbabilities(pureIn.odds, pureIn.bucketStats,
                                                       pureIn.signalWeights)>>
  /\ UNCHANGED <<storageVars, now, pureIn>>

NextPredict == Predict

SpecPredict == InitPredict /\ [][NextPredict]_vars

(***************************************************************************)
(* statsCalculator: the stake                                              *)
(***************************************************************************)
EdgeSteps == 40      \* value edges explored: -EdgeSteps/200 .. EdgeSteps/200

\* Math.floor and Math.round
RFloor(a) == a[1] \div a[2]
MathRound(a) == RFloor(RAdd(a, Frac(1, 2)))

ConfidenceLevels == {"high", "medium", "low"}

\* calculateBetSize: rawBetSize
RawBetSize(valueEdge, confidenceLevel) ==
  LET baseBet == R(1000)
      edgeMultiplier == RMin(R(2), RAdd(R(1), RMul(RMax(R(0), valueEdge), R(10))))
      confidenceMultiplier ==
        CASE confidenceLevel = "high" -> Frac(3, 2)
          [] confidenceLevel = "medium" -> R(1)
          [] confidenceLevel = "low" -> Frac(1, 2)
  IN  RMul(RMul(baseBet, edgeMultiplier), confidenceMultiplier)

\* the raw stake, neither rounded nor capped
UnroundedBetSize(valueEdge, confidenceLevel, modelState) ==
  RFloor(RawBetSize(valueEdge, confidenceLevel))

\* calculateBetSize(valueEdge, confidenceLevel, modelState)
calculateBetSize(valueEdge, confidenceLevel, modelState) ==
  LET rawBetSize == RawBetSize(valueEdge, confidenceLevel)
      roundedBetSize == MathRound(RDiv(rawBetSize, R(1000))) * 1000
      inner == IF 10000 < roundedBetSize THEN 10000 ELSE roundedBetSize
  IN  IF 1000 < inner THEN inner ELSE 1000

\* The stake for a value edge, a confidence level and a model state: pureIn
\* is the input, pureOut the stake
BetSizeEdges == {Frac(k, 200) : k \in (0 - EdgeSteps)..EdgeSteps}

BetSizeModelStates ==
  { readModelState(0),
    [readModelState(0) EXCEPT !.calibrationScalar = Frac(1, 2), !.raceCount = 50,
                              !.totalRacesProcessed = 50] }

InitBetSize ==
  /\ InitStorage
  /\ pureIn \in [valueEdge : BetSizeEdges, confidenceLevel : ConfidenceLevels,
                 modelState : BetSizeModelStates]
  /\ pureOut = <<>>

\* PredictionAndResults: the stake recommended for the pick
SizeBet ==
  /\ pureOut = <<>>
  /\ pureOut' = <<calculateBetSize(pureIn.valueEdge, pureIn.confidenceLevel,
                                   pureIn.modelState)>>
  /\ UNCHANGED <<storageVars, now, pureIn>>

NextBetSize == SizeBet

SpecBetSize == InitBetSize /\ [][NextBetSize]_vars

(***************************************************************************)
(* statsCalculator: the bucket of an odds value                            *)
(***************************************************************************)
OddsScale == 20      \* odds explored in steps of 1/OddsScale
MaxOdds == 30        \* the largest odds value the entry form accepts

\* The bucket of an odds value: pureIn is the odds value, a positive number
\* up to MaxOdds + 1, pureOut its bucket key
ClassifyOdds ==
  {Frac(k, OddsScale) : k \in 1..((MaxOdds + 1) * OddsScale)}
    \cup {R(2), Frac(201, 100), R(10), Frac(1001, 100)}

InitClassify ==
  /\ InitStorage
  /\ pureIn \in ClassifyOdds
  /\ pureOut = <<>>

Classify ==
  /\ pureOut = <<>>
  /\ pureOut' = <<classifyOddsToBucket(pureIn)>>
  /\ UNCHANGED <<storageVars, now, pureIn>>

NextClassify == Classify

SpecClassify == InitClassify /\ [][NextClassify]_vars

(***************************************************************************)
(* statsCalculator: value edge, confidence and recommendation              *)
(***************************************************************************)
\* a1/a2 < b1/b2 for positive a2 and b2, by the integer parts and then the
\* remainders, so that no product is formed
RECURSIVE FracLess(_, _, _, _)
FracLess(a1, a2, b1, b2) ==
  LET qa == a1 \div a2
      qb == b1 \div b2
      ra == a1 - qa * a2
      rb == b1 - qb * b2
  IN  IF qa # qb THEN qa < qb
      ELSE IF rb = 0 THEN FALSE
      ELSE IF ra = 0 THEN TRUE
      ELSE FracLess(b2, rb, a2, ra)

RLess(a, b) == FracLess(a[1], a[2], b[1], b[2])

\* calculateValueEdge(adjustedProbabilities, impliedProbabilities)
calculateValueEdge(adjustedProbabilities, impliedProbabilities) ==
  [i \in 1..Len(adjustedProbabilities) |->
     RSub(adjustedProbabilities[i], impliedProbabilities[i])]

\* calculateConfidence(odds, bucketStats, modelState)
calculateConfidence(odds, bucketStats, modelState) ==
  LET bucketKeys == [i \in 1..Len(odds) |-> classifyOddsToBucket(R(odds[i]))]
      totalSampleSize == SumInts([i \in 1..Len(odds) |-> bucketStats[bucketKeys[i]].totalRaces])
      totalVariance == RSum([i \in 1..Len(odds) |-> bucketStats[bucketKeys[i]].varianceScore])
      count == Len(odds)
      avgSampleSize == Frac(totalSampleSize, count)
      avgVariance == RDiv(totalVariance, R(count))
      recentAccuracy == modelState.driftDetectionState.currentAccuracy
      calibration == modelState.calibrationScalar
  IN  IF /\ RLe(R(50), avgSampleSize)
         /\ RLt(avgVariance, Frac(4, 10))
         /\ RLe(R(55), recentAccuracy)
         /\ RLe(Frac(95, 100), calibration)
      THEN "high"
      ELSE IF /\ RLe(R(20), avgSampleSize)
              /\ RLt(avgVariance, Frac(6, 10))
              /\ RLe(R(45), recentAccuracy)
              /\ RLe(Frac(85, 100), calibration)
           THEN "medium"
           ELSE "low"

\* Math.max(...arr)
RECURSIVE MathMax(_)
MathMax(arr) ==
  IF Len(arr) = 1 THEN arr[1] ELSE (IF RLess(arr[1], MathMax(Tail(arr))) THEN MathMax(Tail(arr)) ELSE arr[1])

\* arr.lastIndexOf(Math.max(...arr)), 0-based
LastIndexOfMax(arr) ==
  (CHOOSE k \in 1..Len(arr) :
     arr[k] = MathMax(arr) /\ \A j \in (k + 1)..Len(arr) : arr[j] # MathMax(arr)) - 1

\* arr.indexOf(Math.max(...arr)), 0-based
IndexOfMax(arr) ==
  (CHOOSE k \in 1..Len(arr) :
     arr[k] = MathMax(arr) /\ \A j \in 1..(k - 1) : arr[j] # MathMax(arr)) - 1

minEdgeThreshold == Frac(2, 100)

StrategyModes == {"Safe", "Balanced", "Value", "Aggressive"}

\* highOddsIndices.reduce((max, item) => item.edge > max.edge ? item : max)
RECURSIVE ReduceBest(_, _, _)
ReduceBest(items, valueEdge, max) ==
  IF items = <<>> THEN max
  ELSE ReduceBest(Tail(items), valueEdge,
                  IF RLess(valueEdge[max + 1], valueEdge[items[1] + 1]) THEN items[1] ELSE max)

\* the recommendation of Safe mode, whatever the mode
SafeRecommendation(strategyMode, odds, adjustedProbabilities, valueEdge) ==
  [shouldSkip |-> FALSE,
   recommendedIndex |-> IndexOfMax(adjustedProbabilities),
   reason |-> "Highest adjusted probability"]

\* getStrategyRecommendation(strategyMode, odds, adjustedProbabilities, valueEdge)
getStrategyRecommendation(strategyMode, odds, adjustedProbabilities, valueEdge) ==
  CASE strategyMode = "Safe" ->
         [shouldSkip |-> FALSE,
          recommendedIndex |-> IndexOfMax(adjustedProbabilities),
          reason |-> "Highest adjusted probability"]
    [] strategyMode = "Balanced" ->
         LET scores == [i \in 1..Len(adjustedProbabilities) |->
                          RAdd(RMul(adjustedProbabilities[i], Frac(7, 10)),
                               RMul((IF RLess(R(0), valueEdge[i]) THEN valueEdge[i] ELSE R(0)), Frac(3, 10)))]
             hasPositiveEdge ==
               \E i \in 1..Len(valueEdge) : RLess(minEdgeThreshold, valueEdge[i])
         IN  IF ~hasPositiveEdge
             THEN [shouldSkip |-> TRUE, recommendedIndex |-> -1,
                   reason |-> "No meaningful positive edge detected"]
             ELSE [shouldSkip |-> FALSE, recommendedIndex |-> IndexOfMax(scores),
                   reason |-> "Best blend of probability and value"]
    [] strategyMode = "Value" ->
         IF RLess(MathMax(valueEdge), minEdgeThreshold)
         THEN [shouldSkip |-> TRUE, recommendedIndex |-> -1,
               reason |-> "No value edge above threshold"]
         ELSE [shouldSkip |-> FALSE, recommendedIndex |-> IndexOfMax(valueEdge),
               reason |-> "Highest positive value edge"]
    [] strategyMode = "Aggressive" ->
         LET highOddsIndices ==
               SelectSeq([i \in 1..Len(odds) |-> i - 1],
                         LAMBDA i : odds[i + 1] > 5 /\ RLess(minEdgeThreshold, valueEdge[i + 1]))
         IN  IF Len(highOddsIndices) = 0
             THEN [shouldSkip |-> TRUE, recommendedIndex |-> -1,
                   reason |-> "No high-odds contenders with positive edge"]
             ELSE [shouldSkip |-> FALSE,
                   recommendedIndex |->
                     ReduceBest(Tail(highOddsIndices), valueEdge, highOddsIndices[1]),
                   reason |-> "High-odds contender with strong value edge"]
    [] OTHER ->
         [shouldSkip |-> FALSE,
          recommendedIndex |-> IndexOfMax(adjustedProbabilities),
          reason |-> "Highest adjusted probability (default)"]

\* calculateBucketAdjustedProbabilities, step 1: odds.map(o => 1 / o)
StepOneImpliedProbabilities(odds) == [i \in 1..Len(odds) |-> Frac(1, odds[i])]

\* PredictionAndResults: what is rendered once the recommendation is known
Advice(odds, modelState, adjustedProbs, valueEdge, confidenceLevel, recommendation) ==
  [adjustedProbs |-> adjustedProbs,
   valueEdge |-> valueEdge,
   confidenceLevel |-> confidenceLevel,
   recommendation |-> recommendation,
   recommendedBetSize |->
     IF recommendation.shouldSkip THEN 1000
     ELSE calculateBetSize(valueEdge[recommendation.recommendedIndex + 1],
                           confidenceLevel, modelState)]

\* PredictionAndResults: the recommendation for the probabilities computed
Recommended(strategyMode, odds, modelState, adjustedProbs, valueEdge, confidenceLevel) ==
  Advice(odds, modelState, adjustedProbs, valueEdge, confidenceLevel,
         getStrategyRecommendation(strategyMode, odds, adjustedProbs, valueEdge))

\* PredictionAndResults: the probabilities, their edge and the confidence
Predicted(strategyMode, odds, bucketStats, modelState, impliedProbabilities, adjustedProbs) ==
  Recommended(strategyMode, odds, modelState, adjustedProbs,
              calculateValueEdge(adjustedProbs, impliedProbabilities),
              calculateConfidence(odds, bucketStats, modelState))

\* PredictionAndResults, with the bucket statistics and the model state loaded
Render(raceData, bucketStats, modelState) ==
  Predicted(raceData.strategyMode, raceData.odds, bucketStats, modelState,
            [i \in 1..Len(raceData.odds) |-> Frac(1, raceData.odds[i])],
            calculateBucketAdjustedProbabilities(raceData.odds, bucketStats,
                                                 modelState.signalWeights))

\* The advice for the odds a form can submit: pureIn is the race data with
\* the bucket statistics and the model state read from the storage, pureOut
\* the advice. The six different odds of the scenario are paired with the
\* statistics of the empty Ledger only, which keeps the exact stake within
\* the range of the integers.
AdviseOdds ==
  { LongShotOdds, <<1, 1, 1, 1, 1, 1>>, <<30, 30, 30, 30, 30, 30>>,
    <<1, 2, 5, 6, 10, 11>>, <<30, 1, 30, 1, 30, 1>>, <<6, 6, 6, 6, 6, 6>>,
    <<3, 2, 2, 5, 8, 15>>, <<5, 2, 2, 10, 10, 20>> }

ScenarioOddsBothWays == { ScenarioOdds, <<15, 8, 5, 4, 3, 2>> }

AdviseLedgers == LedgersOf(1)

AdviseModelStates ==
  {computeUpdatedSignalWeights(l, readModelState(0), 0) : l \in AdviseLedgers}

InitAdvise ==
  /\ InitStorage
  /\ pureIn \in
       [raceData : [odds : AdviseOdds, strategyMode : StrategyModes],
        bucketStats : {calculateOddsBucketStats(l) : l \in AdviseLedgers},
        modelState : AdviseModelStates]
       \cup
       [raceData : [odds : ScenarioOddsBothWays, strategyMode : StrategyModes],
        bucketStats : {calculateOddsBucketStats(<<>>)},
        modelState : AdviseModelStates]
  /\ pureOut = <<>>

Advise ==
  /\ pureOut = <<>>
  /\ pureOut' = <<Render(pureIn.raceData, pureIn.bucketStats, pureIn.modelState)>>
  /\ UNCHANGED <<storageVars, now, pureIn>>

NextAdvise == Advise

SpecAdvise == InitAdvise /\ [][NextAdvise]_vars

(***************************************************************************)
(* The race entry: the odds form, the prediction page and the logging of   *)
(* the result, over the typed storage.  pureIn is the race data submitted  *)
(* (none while the form is shown), pureOut the advice rendered.            *)
(***************************************************************************)
\* the page over the statistics of an empty Ledger
RenderEmptyStats(raceData, modelState) ==
  Render(raceData, calculateOddsBucketStats(<<>>), modelState)

\* PredictionAndResults when getOddsBucketStats() returned null: the implied
\* probabilities, edges of 0, low confidence and a stake of 1000
RenderUnloaded(raceData, modelState) ==
  [adjustedProbs |-> [i \in 1..Len(raceData.odds) |-> Frac(1, raceData.odds[i])],
   valueEdge |-> [i \in 1..6 |-> R(0)],
   confidenceLevel |-> "low",
   recommendation |->
     getStrategyRecommendation(raceData.strategyMode, raceData.odds,
                               [i \in 1..Len(raceData.odds) |-> Frac(1, raceData.odds[i])],
                               [i \in 1..6 |-> R(0)]),
   recommendedBetSize |-> 1000]

\* PredictionAndResults over the storage ls at time t: the bucket statistics
\* and the model state are loaded on mount
RenderFrom(ls, raceData, t) ==
  IF Has(ls.ODDS_BUCKET_STATS)
  THEN Render(raceData, ValueOf(ls.ODDS_BUCKET_STATS), readModelStateTyped(ls, t))
  ELSE RenderUnloaded(raceData, readModelStateTyped(ls, t))

\* odds the form accepts; the statistics of the races logged with them keep
\* the exact arithmetic within the range of the integers
EntryOdds == { <<30, 30, 30, 30, 30, 30>>, LongShotOdds, <<1, 1, 1, 1, 1, 1>> }

\* the winners logged
EntryWinners == {0, 5}

InitEntry ==
  /\ InitStorage
  /\ pureIn = <<>>
  /\ pureOut = <<>>

\* OddsEntryForm: six odds and a strategy mode are submitted, and the
\* prediction page renders
SubmitOdds(odds, strategyMode) ==
  /\ pureIn = <<>>
  /\ pureIn' = <<[odds |-> odds, strategyMode |-> strategyMode]>>
  /\ pureOut' = <<RenderFrom(localStorage, [odds |-> odds, strategyMode |-> strategyMode], now)>>
  /\ UNCHANGED <<storageVars, now>>

\* "Enter New Race": back to the form
EnterNewRace ==
  /\ pureIn # <<>>
  /\ pureIn' = <<>>
  /\ pureOut' = <<>>
  /\ UNCHANGED <<storageVars, now>>

\* handleLogResult(winnerIndex), which a page that says SKIP THIS RACE does
\* not offer: logRaceToStorage(raceInput), and onResultLogged() when it
\* does not throw
LogResult(winnerIndex, failAt) ==
  /\ pureIn # <<>>
  /\ ~pureOut[1].recommendation.shouldSkip
  /\ BeginRebuilding("logEvent")
  /\ Len(getRacesTyped(localStorage)) < MaxRaces
  /\ LET advice == pureOut[1]
         raceInput ==
           RaceRecordInputOf(
             handleLogResult(pureIn[1].odds, advice.adjustedProbs,
                             advice.recommendation.recommendedIndex,
                             advice.recommendedBetSize, winnerIndex))
     IN  FinishTyped(FALSE,
                     rebuildDerivedStatsTyped(
                       appendRaceTyped(Started(localStorage), raceInput, now, failAt),
                       now, failAt))
  /\ pureIn' = IF lastResult' = "ok" THEN <<>> ELSE pureIn
  /\ pureOut' = IF lastResult' = "ok" THEN <<>> ELSE pureOut
  /\ UNCHANGED <<now, pc>>

NextEntry ==
  \/ \E odds \in EntryOdds, strategyMode \in StrategyModes : SubmitOdds(odds, strategyMode)
  \/ EnterNewRace
  \/ \E winnerIndex \in EntryWinners, failAt \in TypedFailPoints : LogResult(winnerIndex, failAt)

SpecEntry == InitEntry /\ [][NextEntry]_vars

(***************************************************************************)
(* statsCalculator: the bucket statistics of a growing Ledger              *)
(***************************************************************************)
MaxWindowRaces == 4      \* longest Ledger of arbitrary races explored
MaxScenarioRaces == 25   \* longest Ledger of races all won by the favourite

CrowdedOdds == <<1, 2, 1, 2, 1, 2>>

\* a race whose only contender with odds in "1-2" wins
FavouriteWins == handleLogResult(ScenarioOdds, FlatPrediction, 0, 1000, 0)

\* a race of the same odds that the longest shot wins, ahead of the
\* favourite and of the next contender
LongShotWins == WithPlaces(handleLogResult(ScenarioOdds, FlatPrediction, 0, 1000, 5), 0, 1)

\* the two races of the scenario odds, and races of six contenders in one
\* bucket
StatsRaceInputs ==
  { FavouriteWins,
    LongShotWins,
    handleLogResult(CrowdedOdds, FlatPrediction, 0, 1000, 0),
    handleLogResult(CrowdedOdds, FlatPrediction, 0, 1000, 5) }

\* calculateOddsBucketStats on a Ledger, one iteration of its outer loop at a
\* time: pureIn holds the races read so far, pureOut the buckets of the loop
InitStats ==
  /\ InitStorage
  /\ pureIn = <<>>
  /\ pureOut = [k \in BucketKeys |-> EmptyAccumulator]

\* for (const race of races): the iteration for one more race
StatsLoop(raceInput) ==
  /\ \/ Len(pureIn) < MaxWindowRaces
     \/ /\ Len(pureIn) < MaxScenarioRaces
        /\ raceInput = FavouriteWins
        /\ \A k \in 1..Len(pureIn) : pureIn[k] = NewRace(FavouriteWins)
  /\ pureIn' = Append(pureIn, NewRace(raceInput))
  /\ pureOut' = AccumulateRace(pureOut, NewRace(raceInput), 0)
  /\ UNCHANGED <<storageVars, now>>

NextStats == \E raceInput \in StatsRaceInputs : StatsLoop(raceInput)

SpecStats == InitStats /\ [][NextStats]_vars

(***************************************************************************)
(* logRaceToStorage and the operations of the settings, each as one step.  *)
(* pureIn keeps the model state read before the last logRaceToStorage.     *)
(***************************************************************************)
\* logRaceToStorage(raceData) where no setItem throws: appendRace,
\* rebuildDerivedStats, notifyStorageChange
LogEvent(raceData) ==
  /\ BeginRebuilding("logEvent")
  /\ Len(getRaces(localStorage)) < MaxRaces
  /\ Finish(rebuildDerivedStats(Started(appendRace(localStorage, raceData)), now, 0),
            IdlePlan)
  /\ pureIn' = <<getModelState(localStorage, now)>>
  /\ UNCHANGED <<now, pc, pureOut>>

NextUndo ==
  \/ \E raceData \in MoreRaceInputs : LogEvent(raceData)
  \/ UndoRace(0, IdlePlan)
  \/ RebuildAll(0, IdlePlan)
  \/ \E failAt \in 0..1 : SoftReset(failAt, IdlePlan)
  \/ Tick

SpecUndo == Init /\ [][NextUndo]_vars

(***************************************************************************)
(* Properties of the Ledger and of the statistics derived from it          *)
(***************************************************************************)
Range(seq) == {seq[k] : k \in 1..Len(seq)}
Count(seq, x) == Cardinality({k \in 1..Len(seq) : seq[k] = x})
IsPrefix(a, b) == Len(a) <= Len(b) /\ \A k \in 1..Len(a) : a[k] = b[k]

\* the Ledger as it is stored
Ledger(ls) == IF Has(ls.RACES) THEN ValueOf(ls.RACES) ELSE <<>>

\* the totals of a BettingHistory, that is all of it but lastUpdated
Totals(h) ==
  [totalRaces |-> h.totalRaces, totalWins |-> h.totalWins, totalProfit |-> h.totalProfit,
   totalInvested |-> h.totalInvested, cumulativeROI |-> h.cumulativeROI,
   winRate |-> h.winRate]

Completed(ops) == pc = "idle" /\ lastOp \in ops /\ lastResult = "ok"

\* C1: whenever the last operation is a completed logEvent, undoLast or
\* rebuildAll, the persisted BettingHistory totals and the persisted
\* BucketStats are what folding calculateBettingHistory and
\* calculateOddsBucketStats over the current Ledger gives.
C1_DerivedStatsMatchLedger ==
  Completed({"logEvent", "undoLast", "rebuildAll"}) =>
    /\ Has(localStorage.BETTING_HISTORY)
    /\ Has(localStorage.ODDS_BUCKET_STATS)
    /\ Totals(ValueOf(localStorage.BETTING_HISTORY))
         = Totals(calculateBettingHistory(Ledger(localStorage), now))
    /\ ValueOf(localStorage.ODDS_BUCKET_STATS)
         = calculateOddsBucketStats(Ledger(localStorage))

\* an undo has just removed the second of two races
C1_Witness ==
  /\ Completed({"undoLast"})
  /\ Len(Ledger(localStorage)) = 1
  /\ Has(localStorage.BETTING_HISTORY)
  /\ ValueOf(localStorage.BETTING_HISTORY).totalRaces = 1

\* a step that runs rebuildAll to completion
RebuildAllStep == lastOp' = "rebuildAll" /\ lastResult' = "ok" /\ steps' = steps + 1

\* C2: rebuildAll run twice in a row on an unchanged Ledger persists, the
\* second time, a BettingHistory and BucketStats identical in every field
\* (lastUpdated included) to those of the first run.
C2_RebuildAllIdempotent ==
  [][(lastOp = "rebuildAll" /\ lastResult = "ok" /\ RebuildAllStep) =>
       /\ localStorage'.BETTING_HISTORY = localStorage.BETTING_HISTORY
       /\ localStorage'.ODDS_BUCKET_STATS = localStorage.ODDS_BUCKET_STATS]_vars

\* a step of undoLast, of fullReset
UndoStep == lastOp' = "undoLast" /\ steps' = steps + 1
FullResetStep == lastOp' = "fullReset" /\ now' = now

AllButLast(seq) == SubSeq(seq, 1, Len(seq) - 1)

ValidRecord(r) ==
  /\ Len(r.odds) = 6
  /\ Len(r.impliedProbabilities) = 6
  /\ Len(r.adjustedProbabilities) = 6
  /\ \A i \in 1..Len(r.odds) : r.odds[i] \in 1..30
  /\ {r.actualFirst, r.actualSecond, r.actualThird} \subseteq 0..5
  /\ Cardinality({r.actualFirst, r.actualSecond, r.actualThird}) = 3

\* C4: input that breaks the record invariant is rejected before anything
\* is written, so every record in the Ledger satisfies the record invariant.
C4_LedgerRecordsValid ==
  \A k \in 1..Len(Ledger(localStorage)) : ValidRecord(Ledger(localStorage)[k])

\* C5: undoLast on an empty Ledger returns failure and leaves the Ledger,
\* BettingHistory, BucketStats and ModelState as they were.
C5_UndoOnEmptyLedger ==
  [][(UndoStep /\ Len(getRaces(localStorage)) = 0) =>
       /\ lastResult' = "false"
       /\ localStorage' = localStorage]_vars

\* undoLast has returned failure
C5_Witness ==
  lastOp = "undoLast" /\ lastResult = "false" /\ Len(getRaces(localStorage)) = 0

DerivedItems(ls) == <<ls.BETTING_HISTORY, ls.ODDS_BUCKET_STATS, ls.MODEL_STATE>>

\* the persisted statistics count every race of the Ledger
StatsInclude(ls) ==
  /\ Has(ls.BETTING_HISTORY)
  /\ ValueOf(ls.BETTING_HISTORY).totalRaces = Len(Ledger(ls))
  /\ Has(ls.ODDS_BUCKET_STATS)
  /\ ValueOf(ls.ODDS_BUCKET_STATS) = calculateOddsBucketStats(Ledger(ls))

\* C6: a logEvent appends, then rebuilds, then notifies.  The append is
\* complete, and nothing else written, before the rebuild runs; the rebuild
\* leaves the Ledger alone and persists statistics that include the new
\* race; the listeners are invoked only after that; when the append or the
\* rebuild throws, nobody is notified and the caller gets the error.
C6_AppendRebuildNotify ==
  [][/\ (pc = "idle" /\ pc' = "appended") =>
          /\ Len(Ledger(localStorage')) = Len(Ledger(localStorage)) + 1
          /\ IsPrefix(Ledger(localStorage), Ledger(localStorage'))
          /\ DerivedItems(localStorage') = DerivedItems(localStorage)
          /\ notified' = <<>>
     /\ (pc = "appended" /\ pc' = "rebuilt") =>
          /\ Ledger(localStorage') = Ledger(localStorage)
          /\ StatsInclude(localStorage')
          /\ notified' = <<>>
     /\ (pc = "rebuilt" /\ pc' # pc) =>
          /\ pc' = "idle"
          /\ localStorage' = localStorage
          /\ StatsInclude(localStorage)
          /\ notified' = storageListeners
          /\ lastResult' = "ok"
     /\ (lastOp' = "logEvent" /\ notified' # <<>>) => pc \in {"rebuilt", "idle"}
     /\ (lastOp' = "logEvent" /\ notified' # <<>> /\ pc = "idle") => UNCHANGED notified
     /\ (lastOp' = "logEvent" /\ pc = "idle" /\ pc' = "idle" /\ steps' = steps + 1) =>
          /\ lastResult' = "error"
          /\ localStorage' = localStorage
          /\ notified' = <<>>
     /\ (pc = "appended" /\ pc' = "idle") =>
          /\ lastResult' = "error"
          /\ notified' = <<>>]_vars

\* a logEvent has run to its end and the listeners have been invoked
C6_Witness ==
  /\ Completed({"logEvent"})
  /\ notified = storageListeners
  /\ Len(notified) > 0
  /\ StatsInclude(localStorage)
  /\ Len(Ledger(localStorage)) = MaxRaces

\* C7: a notification invokes exactly once every listener that was
\* subscribed when it began and that no callback has unsubscribed.
C7_UnsubscribeDuringNotify ==
  [][(\E plan \in Plans : SoftReset(0, plan)) =>
       \A l \in Range(storageListeners) :
          l \in Range(storageListeners') => Count(notified', l) = 1]_vars

(***************************************************************************)
(* Properties of the prediction engine and of the model state              *)
(***************************************************************************)
\* C8: for six valid odds, any bucket statistics and any signal weights,
\* calculateBucketAdjustedProbabilities returns six probabilities, each
\* positive, whose sum is 1.
C8_PredictionIsDistribution ==
  pureOut # <<>> =>
    /\ Len(pureOut[1]) = 6
    /\ \A i \in 1..Len(pureOut[1]) : RLt(R(0), pureOut[1][i])
    /\ RSum(pureOut[1]) = R(1)

\* a prediction whose adjustment is cut off at 0.1 for the first contender
C8_Witness ==
  /\ pureOut # <<>>
  /\ pureIn.signalWeights = HistoryOnlyWeights
  /\ pureIn.odds = ScenarioOdds
  /\ AdjustedProbability(pureIn.odds[1], pureIn.bucketStats, pureIn.signalWeights)
       = RMul(Frac(1, pureIn.odds[1]), Frac(1, 10))
  /\ pureOut[1][1] # Frac(1, pureIn.odds[1])

WeightsOf(modelState) ==
  <<modelState.signalWeights.oddsWeight, modelState.signalWeights.historicalBucketWeight,
    modelState.signalWeights.recentBucketWeight, modelState.signalWeights.consistencyWeight>>

\* C9: in the default model state and after every update of the model state
\* computed from a Ledger, the four signal weights sum to 1 and each lies
\* in [0.05, 0.7].
C9_SignalWeightsInRange ==
  /\ RSum(WeightsOf(pureOut)) = R(1)
  /\ \A k \in 1..4 : /\ RLe(Frac(5, 100), WeightsOf(pureOut)[k])
                     /\ RLe(WeightsOf(pureOut)[k], Frac(7, 10))

\* C10: in the default model state and after every update of the model
\* state computed from a Ledger, the calibration scalar lies in [0.5, 1.5].
C10_CalibrationScalarInRange ==
  /\ RLe(Frac(1, 2), pureOut.calibrationScalar)
  /\ RLe(pureOut.calibrationScalar, Frac(3, 2))

\* an update from a Ledger whose every recommendation won: the scalar is 1.5
C10_Witness ==
  /\ pureOut.raceCount = Len(pureIn)
  /\ pureOut.raceCount > 0
  /\ pureOut.calibrationScalar = Frac(3, 2)

(***************************************************************************)
(* Properties of the stake                                                 *)
(***************************************************************************)
\* C11: for every value edge, every confidence level and every model state,
\* calculateBetSize returns 0 or a value from 1000 to 10000.
C11_BetSizeInRange ==
  pureOut # <<>> => pureOut[1] = 0 \/ (1000 <= pureOut[1] /\ pureOut[1] <= 10000)

\* the stake at an edge of 0.1 and high confidence: 1000 * 2 * 1.5
C11_Witness ==
  /\ pureOut = <<3000>>
  /\ pureIn.valueEdge = Frac(1, 10)
  /\ pureIn.confidenceLevel = "high"

\* C12: whenever the value edge is at most 0.02, calculateBetSize returns 0,
\* at every confidence level.
C12_NoStakeWithoutEdge ==
  (pureOut # <<>> /\ RLe(pureIn.valueEdge, Frac(2, 100))) => pureOut[1] = 0

\* C29: calculateBetSize returns 1000, 2000 or 3000 and nothing else: 1000
\* at low confidence whatever the edge, 1000 or 2000 at medium confidence,
\* 2000 or 3000 at high confidence; the cap of 10000 is never reached.
C29_ThreeStakes ==
  pureOut # <<>> =>
    /\ pureOut[1] \in {1000, 2000, 3000}
    /\ pureIn.confidenceLevel = "low" => pureOut[1] = 1000
    /\ pureIn.confidenceLevel = "medium" => pureOut[1] \in {1000, 2000}
    /\ pureIn.confidenceLevel = "high" => pureOut[1] \in {2000, 3000}

\* the stake at an edge of 0.05 and medium confidence: 1500 rounds to 2000
C29_Witness ==
  /\ pureOut = <<2000>>
  /\ pureIn.valueEdge = Frac(5, 100)
  /\ pureIn.confidenceLevel = "medium"

(***************************************************************************)
(* Properties of the bucket classification                                 *)
(***************************************************************************)
\* C13: for every odds value from 1 to 30, integer or not, the bucket is
\* "1-2" iff odds <= 2, "3-5" iff 2 < odds <= 5, "6-10" iff 5 < odds <= 10
\* and "11-30" iff odds > 10; so 2.0 is in "1-2", 2.01 in "3-5", 10.0 in
\* "6-10" and 10.01 in "11-30".
C13_ClassifyBoundaries ==
  (pureOut # <<>> /\ RLe(R(1), pureIn) /\ RLe(pureIn, R(MaxOdds))) =>
    /\ pureOut[1] = "1-2" <=> RLe(pureIn, R(2))
    /\ pureOut[1] = "3-5" <=> (RLt(R(2), pureIn) /\ RLe(pureIn, R(5)))
    /\ pureOut[1] = "6-10" <=> (RLt(R(5), pureIn) /\ RLe(pureIn, R(10)))
    /\ pureOut[1] = "11-30" <=> RLt(R(10), pureIn)
    /\ pureIn = R(2) => pureOut[1] = "1-2"
    /\ pureIn = Frac(201, 100) => pureOut[1] = "3-5"
    /\ pureIn = R(10) => pureOut[1] = "6-10"
    /\ pureIn = Frac(1001, 100) => pureOut[1] = "11-30"

\* the boundary value 2.0 classified
C13_Witness ==
  /\ pureIn = R(2)
  /\ pureOut = <<"1-2">>

\* C14: every positive odds value that is at most 2, a value below 1
\* included, is classified as "1-2".
C14_ClassifyBelowOne ==
  (pureOut # <<>> /\ RLt(R(0), pureIn) /\ RLe(pureIn, R(2))) => pureOut[1] = "1-2"

(***************************************************************************)
(* Properties of the advice                                                *)
(***************************************************************************)
\* the prediction asked for an empty Ledger and the default model state
EmptyLedgerPrediction ==
  /\ pureOut # <<>>
  /\ pureIn.bucketStats = calculateOddsBucketStats(<<>>)
  /\ pureIn.modelState = readModelState(0)

\* the implied probabilities the prediction starts from
ImpliedOf(odds) == [i \in 1..Len(odds) |-> Frac(1, odds[i])]

\* C15 as stated: with an empty Ledger and the default model state, every
\* contender's adjusted probability equals its implied probability exactly,
\* and the confidence level is "low".
C15_AdjustedEqualsImplied ==
  EmptyLedgerPrediction =>
    /\ \A i \in 1..6 : pureOut[1].adjustedProbs[i] = ImpliedOf(pureIn.raceData.odds)[i]
    /\ pureOut[1].confidenceLevel = "low"

\* C15: with an empty Ledger and the default model state, every contender's
\* adjusted probability is its implied probability divided by the sum of
\* the six implied probabilities, and the confidence level is "low".
C15_AdjustedIsNormalizedImplied ==
  EmptyLedgerPrediction =>
    /\ \A i \in 1..6 :
         pureOut[1].adjustedProbs[i]
           = RDiv(ImpliedOf(pureIn.raceData.odds)[i], RSum(ImpliedOf(pureIn.raceData.odds)))
    /\ pureOut[1].confidenceLevel = "low"

\* the scenario: odds [2,3,4,5,8,15], whose implied probabilities sum to
\* 59/40; the first contender gets 20/59 where 1/2 is implied
C15_Witness ==
  /\ EmptyLedgerPrediction
  /\ pureIn.raceData.odds = ScenarioOdds
  /\ pureOut[1].adjustedProbs[1] = Frac(20, 59)
  /\ pureOut[1].confidenceLevel = "low"

\* C20: in Safe mode the recommendation never skips, and the recommended
\* index is the lowest index among the contenders whose adjusted
\* probability is the maximum.
C20_SafePicksFirstMaximum ==
  (pureOut # <<>> /\ pureIn.raceData.strategyMode = "Safe") =>
    LET p == pureOut[1].adjustedProbs
        k == pureOut[1].recommendation.recommendedIndex + 1
    IN  /\ ~pureOut[1].recommendation.shouldSkip
        /\ k \in 1..6
        /\ \A j \in 1..6 : ~RLess(p[k], p[j])
        /\ \A j \in 1..(k - 1) : RLess(p[j], p[k])

\* Safe mode on odds [3,2,2,5,8,15] with an empty Ledger: the second and the
\* third contender share the maximum, the second is recommended
C20_Witness ==
  /\ pureOut # <<>>
  /\ pureIn.raceData.strategyMode = "Safe"
  /\ pureIn.raceData.odds = <<3, 2, 2, 5, 8, 15>>
  /\ pureOut[1].adjustedProbs[2] = pureOut[1].adjustedProbs[3]
  /\ pureOut[1].recommendation.recommendedIndex = 1
  /\ ~pureOut[1].recommendation.shouldSkip

(***************************************************************************)
(* Properties of the bucket statistics                                     *)
(***************************************************************************)
\* the win/non-win samples of a bucket, in submission order: contender i of
\* race k is slot 6 * (k - 1) + i + 1
SlotRace(races, p) == races[((p - 1) \div 6) + 1]
SlotWon(races, p) == IF SlotRace(races, p).actualFirst = (p - 1) % 6 THEN 1 ELSE 0
SlotsOf(races, key) ==
  SelectSeq([p \in 1..(6 * Len(races)) |-> p],
            LAMBDA p : classifyOddsToBucket(R(SlotRace(races, p).odds[((p - 1) % 6) + 1])) = key)
SamplesOf(races, key) ==
  [j \in 1..Len(SlotsOf(races, key)) |-> SlotWon(races, SlotsOf(races, key)[j])]

\* the last min(n, Len(samples)) samples
MostRecent(samples, n) ==
  IF Len(samples) <= n THEN samples
  ELSE SubSeq(samples, Len(samples) - n + 1, Len(samples))

WinRate(samples) ==
  IF samples = <<>> THEN R(0)
  ELSE RMul(Frac(Cardinality({j \in 1..Len(samples) : samples[j] = 1}), Len(samples)), R(100))

\* the statistics calculateOddsBucketStats returns when the Ledger ends here
StatsNow == FinalStats(pureOut)

\* every race of the Ledger has one contender with odds in "1-2", the winner
FavouriteAlwaysWins(races) ==
  \A k \in 1..Len(races) :
    /\ Cardinality({i \in 1..6 : classifyOddsToBucket(R(races[k].odds[i])) = "1-2"}) = 1
    /\ classifyOddsToBucket(R(races[k].odds[races[k].actualFirst + 1])) = "1-2"

\* C16: the recent-window performance of every bucket is the win rate over
\* its most recent min(20, n) samples, in submission order; and after N >= 1
\* races all won by the only contender with odds in "1-2", the actualWinRate
\* and the recent-window performance of "1-2" are 100.
C16_RecentWindow ==
  /\ \A key \in BucketKeys :
       StatsNow[key].recentWindowPerformance
         = WinRate(MostRecent(SamplesOf(pureIn, key), 20))
  /\ (Len(pureIn) >= 1 /\ FavouriteAlwaysWins(pureIn)) =>
       /\ StatsNow["1-2"].actualWinRate = R(100)
       /\ StatsNow["1-2"].recentWindowPerformance = R(100)

\* the statistics of 25 races all won by the favourite
C16_Witness ==
  /\ Len(pureIn) = 25
  /\ FavouriteAlwaysWins(pureIn)
  /\ Len(pureOut["1-2"].outcomes) = 25
  /\ Len(pureOut["1-2"].recentOutcomes) = 20
  /\ StatsNow["1-2"].actualWinRate = R(100)
  /\ StatsNow["1-2"].recentWindowPerformance = R(100)
  /\ StatsNow["3-5"].recentWindowPerformance = R(0)

(***************************************************************************)
(* Properties of a storage whose items fail to parse                       *)
(***************************************************************************)
\* an operation that reads the Ledger starts in this step
LedgerReadingStep ==
  /\ pc = "idle"
  /\ lastOp' \in {"logEvent", "rebuildAll", "undoLast"}
  /\ steps' = steps + 1

\* C18: when the stored Ledger fails to parse, every operation that reads
\* it (append, rebuildAll, undoLast) reports an error, and the stored Ledger
\* is left as it is: it is neither taken for empty nor overwritten.
C18_CorruptLedgerReported ==
  [][(LedgerReadingStep /\ Has(localStorage.RACES) /\ ~Parses(localStorage.RACES)) =>
       /\ lastResult' = "error"
       /\ localStorage'.RACES = localStorage.RACES]_vars

(***************************************************************************)
(* Properties of the typed storage                                         *)
(***************************************************************************)
\* logRaceToStorage completes in this step
LogCompletes == lastOp' = "logEvent" /\ steps' = steps + 1 /\ lastResult' = "ok"

\* C17: after each completed logEvent the model state is stored, and the
\* number of processed races it records (totalRacesProcessed, raceCount) is
\* the number of records of the Ledger.
C17_ModelStateCountsLedger ==
  [][LogCompletes =>
       /\ Has(localStorage'.MODEL_STATE)
       /\ Parses(localStorage'.MODEL_STATE)
       /\ ValueOf(localStorage'.MODEL_STATE).totalRacesProcessed
            = Len(getRacesTyped(localStorage'))
       /\ ValueOf(localStorage'.MODEL_STATE).raceCount
            = Len(getRacesTyped(localStorage'))]_vars

\* rebuild() starts in this step
RebuildStarts == lastOp' = "rebuildAll" /\ steps' = steps + 1

DerivedDamaged(ls) ==
  ReadThrows(ls, "BETTING_HISTORY") \/ ReadThrows(ls, "ODDS_BUCKET_STATS")

\* C19: when the stored betting history or the stored bucket statistics do
\* not parse and the Ledger does, rebuild() throws no StorageCorruptionError
\* and leaves the Ledger as it is; unless a setItem of its own throws, it
\* completes, and the betting history and the bucket statistics it leaves
\* both parse and are the ones calculated from the Ledger.
C19_RebuildRecoversDerived ==
  [][(RebuildStarts /\ DerivedDamaged(localStorage) /\ ~ReadThrows(localStorage, "RACES")) =>
       /\ lastResult' \in {"ok", "StorageError"}
       /\ localStorage'.RACES = localStorage.RACES
       /\ lastResult' = "ok" =>
            /\ localStorage'.BETTING_HISTORY
                 = Present(calculateBettingHistory(getRacesTyped(localStorage), now))
            /\ localStorage'.ODDS_BUCKET_STATS
                 = Present(calculateOddsBucketStats(getRacesTyped(localStorage)))
            /\ Damaged(localStorage') = {}]_vars

\* rebuild() has completed on a Ledger of one race or more whose betting
\* history and bucket statistics both failed to parse
C19_Witness ==
  /\ pc = "idle" /\ lastOp = "rebuildAll" /\ lastResult = "ok"
  /\ pureIn = <<{"BETTING_HISTORY", "ODDS_BUCKET_STATS"}>>
  /\ Damaged(localStorage) = {}
  /\ Len(getRacesTyped(localStorage)) >= 1
  /\ ValueOf(localStorage.BETTING_HISTORY).totalRaces = Len(getRacesTyped(localStorage))

(***************************************************************************)
(* Properties of the recommendation                                        *)
(***************************************************************************)
AdviceNow == pureOut[1]
AdvisedIn(strategyMode) == pureOut # <<>> /\ pureIn.raceData.strategyMode = strategyMode

\* 0.7 * probability + 0.3 * max(0, edge) of contender i (1-based)
Blend(advice, i) ==
  RAdd(RMul(Frac(7, 10), advice.adjustedProbs[i]),
       RMul(Frac(3, 10), RMax(R(0), advice.valueEdge[i])))

EdgeAboveThreshold(advice, i) == RLess(Frac(2, 100), advice.valueEdge[i])

\* C21: in Balanced mode the recommendation is skip exactly when no
\* contender has an edge above 0.02; otherwise the recommended index is the
\* lowest index among the contenders whose blend
\* 0.7 * probability + 0.3 * max(0, edge) is the largest.
C21_BalancedBlend ==
  AdvisedIn("Balanced") =>
    LET r == AdviceNow.recommendation
    IN  /\ r.shouldSkip <=> ~\E i \in 1..6 : EdgeAboveThreshold(AdviceNow, i)
        /\ r.shouldSkip => r.recommendedIndex = -1
        /\ ~r.shouldSkip =>
             /\ r.recommendedIndex \in 0..5
             /\ \A j \in 1..6 :
                  ~RLess(Blend(AdviceNow, r.recommendedIndex + 1), Blend(AdviceNow, j))
             /\ \A j \in 1..r.recommendedIndex :
                  RLess(Blend(AdviceNow, j), Blend(AdviceNow, r.recommendedIndex + 1))

\* a Balanced recommendation that is not a skip, where another contender
\* has the same blend as the recommended one
C21_Witness ==
  /\ AdvisedIn("Balanced")
  /\ ~AdviceNow.recommendation.shouldSkip
  /\ \E j \in 1..6 :
       /\ j # AdviceNow.recommendation.recommendedIndex + 1
       /\ Blend(AdviceNow, j) = Blend(AdviceNow, AdviceNow.recommendation.recommendedIndex + 1)

\* C26: whenever the recommendation in Balanced, Value or Aggressive mode is
\* not a skip, the edge of the recommended contender is above 0.02.
C26_RecommendedEdgeAboveThreshold ==
  (pureOut # <<>> /\ pureIn.raceData.strategyMode \in {"Balanced", "Value", "Aggressive"}
     /\ ~AdviceNow.recommendation.shouldSkip)
    => EdgeAboveThreshold(AdviceNow, AdviceNow.recommendation.recommendedIndex + 1)

(***************************************************************************)
(* Properties of the model state under undoLast and rebuildAll             *)
(***************************************************************************)
\* what the model state has learnt: the calibration scalar, the drift flag
\* and the count of consecutive drifts
Learnt(modelState) ==
  <<modelState.calibrationScalar,
    modelState.driftDetectionState.driftDetected,
    modelState.driftDetectionState.consecutiveDriftCount>>

\* C22: undoLast run right after a completed logEvent leaves the calibration
\* scalar and the drift-detection state as they were before that logEvent.
C22_UndoRestoresModelState ==
  [][(lastOp = "logEvent" /\ lastResult = "ok" /\ UndoStep /\ lastResult' = "ok") =>
       Learnt(getModelState(localStorage', now)) = Learnt(pureIn[1])]_vars

\* C25: rebuildAll run twice in a row with no event in between leaves, the
\* second time, the calibration scalar and the drift-detection state (drift
\* flag, consecutive-drift count) as the first run left them.
C25_RebuildAllKeepsModelState ==
  [][(lastOp = "rebuildAll" /\ lastResult = "ok" /\ RebuildAllStep) =>
       Learnt(getModelState(localStorage', now)) = Learnt(getModelState(localStorage, now))]_vars

\* the learning data: the Ledger, the model state, the bucket statistics
\* and the betting history
LearningData(ls) == <<ls.RACES, ls.MODEL_STATE, ls.ODDS_BUCKET_STATS, ls.BETTING_HISTORY>>

\* C23: softReset leaves the Ledger, the model state, the bucket statistics
\* and the betting history as they are; the one item it writes is the
\* session start, which becomes the current time.
C23_SoftResetKeepsLearningData ==
  [][(\E failAt \in 0..1 : SoftReset(failAt, IdlePlan)) =>
       /\ LearningData(localStorage') = LearningData(localStorage)
       /\ lastResult' = "ok" => localStorage'.SESSION_START = Present(now)]_vars

\* softReset has moved the session start of a storage that holds a race,
\* its statistics and a model state
C23_Witness ==
  /\ lastOp = "softReset" /\ lastResult = "ok"
  /\ localStorage.SESSION_START = Present(1)
  /\ Len(Ledger(localStorage)) >= 1
  /\ Has(localStorage.MODEL_STATE)
  /\ Has(localStorage.ODDS_BUCKET_STATS)
  /\ Has(localStorage.BETTING_HISTORY)

\* C24: the implied probabilities stored with each record of the Ledger,
\* which the bucket statistics accumulate, are the implied probabilities
\* that step 1 of the prediction computes from the same odds.
C24_OneImpliedProbabilityFormula ==
  \A k \in 1..Len(getRaces(localStorage)) :
     getRaces(localStorage)[k].impliedProbabilities
       = StepOneImpliedProbabilities(getRaces(localStorage)[k].odds)

\* the variance of the 0/1 samples of a bucket, before the square root:
\* mean * (1 - mean)
ExactVariance(samples) ==
  IF samples = <<>> THEN R(0)
  ELSE RMul(Frac(SumInts(samples), Len(samples)),
            RSub(R(1), Frac(SumInts(samples), Len(samples))))

InUnit(x, lo, hi) == ~RLess(x, lo) /\ ~RLess(hi, x)

\* deriveConsistencyModifier takes its else branch
ElseBranchTaken(bucket) == ~RLess(bucket.varianceScore, Frac(1, 2))

\* C27 as stated: every bucket's varianceScore lies in [0, 0.5], its
\* consistency modifier lies in [0, 0.1], and the else branch of
\* deriveConsistencyModifier is never taken.
C27_ElseBranchNeverTaken ==
  \A key \in BucketKeys :
    /\ InUnit(StatsNow[key].varianceScore, R(0), Frac(1, 2))
    /\ InUnit(deriveConsistencyModifier(StatsNow[key]), R(0), Frac(1, 10))
    /\ ~ElseBranchTaken(StatsNow[key])

\* C27: every bucket's varianceScore lies in [0, 0.5] (the variance of its
\* 0/1 samples is at most 1/4) and its consistency modifier lies in
\* [0, 0.1]; the else branch of deriveConsistencyModifier is taken only when
\* the varianceScore is exactly 0.5, and the modifier is then 0.
C27_ConsistencyModifierNotNegative ==
  \A key \in BucketKeys :
    /\ pureOut[key].outcomes = SamplesOf(pureIn, key)
    /\ InUnit(ExactVariance(pureOut[key].outcomes), R(0), Frac(1, 4))
    /\ InUnit(StatsNow[key].varianceScore, R(0), Frac(1, 2))
    /\ InUnit(deriveConsistencyModifier(StatsNow[key]), R(0), Frac(1, 10))
    /\ ElseBranchTaken(StatsNow[key]) =>
         /\ StatsNow[key].varianceScore = Frac(1, 2)
         /\ deriveConsistencyModifier(StatsNow[key]) = R(0)

\* the favourite has won one race of two: the varianceScore of "1-2" is 0.5
\* and its modifier 0, while "3-5", with no win in six samples, has the
\* modifier 0.1
C27_Witness ==
  /\ Len(pureIn) = 2
  /\ pureOut["1-2"].outcomes = <<1, 0>>
  /\ StatsNow["1-2"].varianceScore = Frac(1, 2)
  /\ deriveConsistencyModifier(StatsNow["1-2"]) = R(0)
  /\ StatsNow["3-5"].varianceScore = R(0)
  /\ deriveConsistencyModifier(StatsNow["3-5"]) = Frac(1, 10)

SumOver(f) == f["1-2"] + f["3-5"] + f["6-10"] + f["11-30"]

\* C28: for a Ledger of N records, the totalRaces of the four buckets sum to
\* 6 * N, their wins sum to N, and in every bucket
\* wins <= top3Finishes <= totalRaces.
C28_BucketCounts ==
  /\ SumOver([key \in BucketKeys |-> StatsNow[key].totalRaces]) = 6 * Len(pureIn)
  /\ SumOver([key \in BucketKeys |-> StatsNow[key].wins]) = Len(pureIn)
  /\ \A key \in BucketKeys :
       /\ StatsNow[key].wins <= StatsNow[key].top3Finishes
       /\ StatsNow[key].top3Finishes <= StatsNow[key].totalRaces

\* four races in which the second and the third place are known too: a
\* bucket has more top-3 finishes than wins and more samples than top-3
\* finishes
C28_Witness ==
  /\ Len(pureIn) = MaxWindowRaces
  /\ \E key \in BucketKeys :
       /\ 0 < StatsNow[key].wins
       /\ StatsNow[key].wins < StatsNow[key].top3Finishes
       /\ StatsNow[key].top3Finishes < StatsNow[key].totalRaces

(***************************************************************************)
(* Properties of the race entry                                            *)
(***************************************************************************)
\* C30: while no bucket statistics are stored, every value edge rendered is
\* 0 and the Balanced, Value and Aggressive modes skip, whatever the odds;
\* a race whose page says skip is not logged, so the Ledger grows from
\* empty only by a race entered in Safe mode.
C30_FreshInstallSkips ==
  [][/\ (pureOut' # <<>> /\ ~Has(localStorage'.ODDS_BUCKET_STATS)) =>
          /\ \A i \in 1..6 : pureOut'[1].valueEdge[i] = R(0)
          /\ pureIn'[1].strategyMode \in {"Balanced", "Value", "Aggressive"} =>
               pureOut'[1].recommendation.shouldSkip
     /\ Len(getRacesTyped(localStorage')) > Len(getRacesTyped(localStorage)) =>
          /\ ~pureOut[1].recommendation.shouldSkip
          /\ (getRacesTyped(localStorage) = <<>> \/ ~Has(localStorage.ODDS_BUCKET_STATS)) =>
               pureIn[1].strategyMode = "Safe"]_vars

\* on a fresh install, six contenders at odds 30 entered in Value mode: the
\* page says skip
C30_Witness ==
  /\ getRacesTyped(localStorage) = <<>>
  /\ ~Has(localStorage.ODDS_BUCKET_STATS)
  /\ pureIn = <<[odds |-> <<30, 30, 30, 30, 30, 30>>, strategyMode |-> "Value"]>>
  /\ pureOut # <<>>
  /\ pureOut[1].recommendation.shouldSkip
  /\ \A i \in 1..6 : pureOut[1].valueEdge[i] = R(0)

====
